---- MODULE Spec2Model ----
(***************************************************************************)
(* Model of the IGR scraping sessions of the land-pricing repository.      *)
(*                                                                         *)
(*   Spec      one session of NEWmethod2.py: process_igr_from_doc (or a    *)
(*             direct `with IGRSubzoneScraper() as s: s.run(...)`),        *)
(*             __enter__, run (cascade, SubZones scan, pagination),        *)
(*             __exit__.  The web site and the browser are the             *)
(*             environment: every call that can fail or answer in more     *)
(*             than one way is a nondeterministic choice.                  *)
(*   SpecPool  the thread-local browser pool of method2.py and the         *)
(*             sessions of get_land_rate / get_land_rate_with_progress     *)
(*             running in the gunicorn worker threads.                     *)
(*   SpecText  the text functions of NEWmethod2.py called one after the    *)
(*             other on inputs drawn from small sets: _translate_to_en,    *)
(*             _clean_text, _norm_mr, _consider_survey_number,             *)
(*             extract_admin_and_surveys_from_docx, parse_current_page.    *)
(***************************************************************************)
EXTENDS Integers, Sequences, FiniteSets, TLC

VARIABLES
    \* ---- session of NEWmethod2.py -------------------------------------
    pc,              \* position of the control flow
    translate_admin, \* run's parameter
    surveys,         \* run's parameter: list of survey identifiers
    playwright,      \* self.playwright: "none" | "started" | "stopped"
    browser,         \* self.browser:    "none" | "open" | "closed"
    page,            \* self.page:       "none" | "open" | "closed"
    closeTried,      \* close steps of __exit__ that were attempted
    pending,         \* what run returned or raised, before __exit__
    result,          \* what the caller of the session finally gets
    tried,           \* history: cascade steps attempted
    okSteps,         \* history: cascade steps that succeeded
    count,           \* history: times the page was loaded, the district
                     \*          selected, the year selected
    village_ready,   \* history: village option list seen repopulated
    radio,           \* 'SubZones' radio: "unset" | "selected" | "failed"
    numPages,        \* site: number of pages of the SubZones grid
    rowsPerPage,     \* site: rows with a SurveyNo link on each page
    stray,           \* site: the numbers numPages+1 .. numPages+stray are
                     \*       the exact text of elements outside the pager
    col2,            \* site: column-2 text of the grid row <<page, row>>
    shown,           \* site: grid page whose content is displayed
    textarea,        \* site: value of the detail textarea
    current_page,    \* run's page counter
    parsed,          \* history: content page parsed at each loop pass
    rows,            \* rows parsed for the current pass
    rowIdx,          \* index in rows of the row being handled
    prev_text_val,   \* textarea value captured before the click
    val,             \* textarea value read when polling ended
    visited,         \* history: rows of the current pass handled so far
    passesDone,      \* history: passes whose parsed rows were all handled
    row_clicked,     \* history: some SurveyNo link was clicked
    verdict,         \* outcome of the last verification
    poll_read,       \* how the polling of the textarea ended
    grid_changed,    \* history: the grid changed after the last pager click
    scanFault,       \* history: a browser call of the scan failed
    progress_cb,     \* self.progress_cb: what the caller passed
    emit_ret,        \* how the last call of _emit_status ended
    \* ---- browser pool of method2.py -----------------------------------
    tl_browser,      \* per thread: _thread_local.browser_instance
    launches,        \* per thread: number of launch attempts
    sess,            \* per thread: the session in progress, if any
    nextPage,        \* next fresh page identity
    nextBrowser,     \* next fresh browser identity
    openPages,       \* pages created and not yet closed
    done,            \* per thread: sessions completed
    \* ---- text functions of NEWmethod2.py ------------------------------
    translate_cache, \* _translate_cache: set of <<text, translation>>
    fn_call,         \* the last call: function name and argument
    fn_ret,          \* what the last call returned or raised
    calls,           \* number of calls made
    translators,     \* per thread: its call of _translate_to_en in progress
    \* ---- follow-up tables of the Index-II document ---------------------
    base_rows,       \* data rows of the base table, as texts
    followup,        \* the tables and the average built from them
    \* ---- the Flask application of main.py ------------------------------
    image_processing, \* processing_status["image_processing"]
    requests         \* per thread: the request it is handling, if any

sessVars == <<pc, translate_admin, surveys, playwright, browser, page,
              closeTried, pending, result, tried, okSteps, count,
              village_ready, radio, numPages, rowsPerPage, stray, shown,
              textarea, current_page, parsed, rows, rowIdx, prev_text_val,
              val, visited, passesDone, row_clicked, verdict, poll_read, grid_changed,
              scanFault, progress_cb, emit_ret, col2>>

poolVars == <<tl_browser, launches, sess, nextPage, nextBrowser, openPages,
              done>>

docVars == <<base_rows, followup>>

flaskVars == <<image_processing, requests>>

appVars == <<docVars, flaskVars>>

fnVars == <<translate_cache, fn_call, fn_ret, calls, translators, appVars>>

vars == <<sessVars, poolVars, fnVars>>

-----------------------------------------------------------------------------
(* Bounds of the model.                                                    *)

MaxPages == 2

MaxRows == 2

MaxStray == 1

MaxSessions == 2

\* longest raw survey text given to _consider_survey_number
MaxRawLen == 5

\* longest text given to _clean_text and _norm_mr
MaxTextLen == 3

\* calls of _translate_to_en in a row
MaxCalls == 2

\* rows of the survey table of a document
MaxCells == 3

\* rows of the grid page given to parse_current_page
MaxMatchRows == 2

\* entries of recorded_first_col
MaxKeys == 2

-----------------------------------------------------------------------------
(* Text.  A string is a sequence of one-character strings.                 *)

Space == " "

RECURSIVE Without(_, _)
Without(s, cs) ==
    IF s = <<>> THEN <<>>
    ELSE IF Head(s) \in cs THEN Without(Tail(s), cs)
         ELSE <<Head(s)>> \o Without(Tail(s), cs)

\* str.replace(' ', ''): only the space character is removed
RemoveSpaces(s) == Without(s, {Space})

\* Python's `a in b` on strings: a is a contiguous substring of b
IsSubstring(a, b) ==
    \E i \in 0..(Len(b) - Len(a)) : SubSeq(b, i + 1, i + Len(a)) = a

\* any() in place of all()
TextboxHasAnySurvey(v, svs) ==
    \E k \in 1..Len(svs) : IsSubstring(RemoveSpaces(svs[k]), RemoveSpaces(v))

\* all(sv.replace(' ', '') in val.replace(' ', '') for sv in surveys)
TextboxHasAllSurveys(v, svs) ==
    \A k \in 1..Len(svs) : IsSubstring(RemoveSpaces(svs[k]), RemoveSpaces(v))

-----------------------------------------------------------------------------
(* Inputs of a session and answers of the site.                            *)

S12A == <<"1", "2", "A">>

S45 == <<"4", "5">>

S1sp2 == <<"1", " ", "2">>

\* the lists of identifiers a session is called with
SurveyLists == { <<>>, <<S12A, S45>>, <<S1sp2>> }

\* what the detail textarea can show: '', '12A', '12A, 45', '12A,4\t5'
DetailTexts ==
    { <<>>,
      <<"1", "2", "A">>,
      <<"1", "2", "A", ",", " ", "4", "5">>,
      <<"1", "2", "A", ",", "4", "\t", "5">> }

RadioStrategies == {"exact", "loose", "label", "scan", "ensure"}

-----------------------------------------------------------------------------
(* Results handed to the caller.                                           *)

NoResult == [kind |-> "none", msg |-> "", row |-> <<0, 0>>, textbox |-> <<>>]

Success(r, text) ==
    [kind |-> "success", msg |-> "", row |-> r, textbox |-> text]

Error(m) == [kind |-> "error", msg |-> m, row |-> <<0, 0>>, textbox |-> <<>>]

Raised(m) ==
    [kind |-> "exception", msg |-> m, row |-> <<0, 0>>, textbox |-> <<>>]

ErrDocx == "Only .docx is supported currently for Method 2"

ErrExtract == "Could not extract district/taluka/village/surveys from the document"

ErrDistrict == "Could not select district from page"

ErrNoGrid == "SubZones grid not found after village selection"

ErrExhausted == "Exhausted all SubZones pages and rows without finding all surveys"

ErrScan == "Failed during SubZones scan"

-----------------------------------------------------------------------------
(* The session of NEWmethod2.py.                                           *)

\* what progress_cb can be: not given (None), a value that is not callable,
\* a callable that raises an Exception, a callable that returns
ProgressCallbacks == {"absent", "not_callable", "raises", "returns"}

\* the session before the call, whatever the callback
InitSession ==
    /\ pc = "idle"
    /\ translate_admin = FALSE
    /\ surveys = <<>>
    /\ playwright = "none"
    /\ browser = "none"
    /\ page = "none"
    /\ closeTried = {}
    /\ pending = NoResult
    /\ result = NoResult
    /\ tried = {}
    /\ okSteps = {}
    /\ count = [s \in {"load", "district", "year"} |-> 0]
    /\ village_ready = FALSE
    /\ radio = "unset"
    /\ numPages \in 1..MaxPages
    /\ rowsPerPage \in 0..MaxRows
    /\ stray \in 0..MaxStray
    /\ shown = 1
    /\ textarea = <<>>
    /\ current_page = 0
    /\ parsed = <<>>
    /\ rows = <<>>
    /\ rowIdx = 0
    /\ prev_text_val = <<>>
    /\ val = <<>>
    /\ visited = {}
    /\ passesDone = 0
    /\ row_clicked = FALSE
    /\ verdict = "none"
    /\ poll_read = "none"
    /\ grid_changed = FALSE
    /\ scanFault = FALSE
    /\ emit_ret = "none"

\* the rows of the grid that carry a SurveyNo link, as <<page, row>>
GridCells == (1..numPages) \X (1..rowsPerPage)

\* column-2 texts of the SubZones grid: '12a', 'c'
SubzoneTexts == {<<"1", "2", "a">>, <<"c">>}

\* a grid whose rows all show the same column-2 text
PlainGrid == col2 = [r \in GridCells |-> <<"c">>]

\* a session started without progress callback
InitSess ==
    /\ InitSession
    /\ progress_cb = "absent"
    /\ PlainGrid

siteVars == <<numPages, rowsPerPage, stray, col2>>

resVars == <<playwright, browser, page, closeTried>>

callVars == <<translate_admin, surveys, progress_cb>>

cascadeVars == <<tried, okSteps, count, village_ready, radio>>

scanVars == <<shown, textarea, current_page, parsed, rows, rowIdx,
              prev_text_val, val, visited, passesDone, row_clicked, verdict,
              poll_read,
              grid_changed, scanFault>>

\* process_igr_from_doc up to the `with` statement; it calls run with
\* translate_admin=False
ProcessIgrFromDoc ==
    /\ pc = "idle"
    /\ \E isDocx \in BOOLEAN, adminFound \in BOOLEAN, sv \in SurveyLists :
         /\ translate_admin' = FALSE
         /\ surveys' = sv
         /\ IF ~isDocx
              THEN result' = Error(ErrDocx) /\ pc' = "returned"
              ELSE IF ~adminFound \/ sv = <<>>
                     THEN result' = Error(ErrExtract) /\ pc' = "returned"
                     ELSE result' = result /\ pc' = "enter"
    /\ UNCHANGED <<resVars, pending, cascadeVars, siteVars, scanVars,
                   progress_cb, emit_ret, poolVars, fnVars>>

\* a caller that uses the scraper class itself, with run's default
\* translate_admin=True
DirectRun ==
    /\ pc = "idle"
    /\ translate_admin' = TRUE
    /\ surveys' \in SurveyLists
    /\ pc' = "enter"
    /\ UNCHANGED <<resVars, pending, result, cascadeVars, siteVars, scanVars,
                   progress_cb, emit_ret, poolVars, fnVars>>

\* an exception inside __enter__: the `with` statement does not call __exit__
EnterRaise(m) ==
    /\ result' = Raised(m)
    /\ pc' = "returned"

EnterPlaywright ==
    /\ pc = "enter"
    /\ \E ok \in BOOLEAN :
         IF ok THEN /\ playwright' = "started"
                    /\ pc' = "enter_launch"
                    /\ result' = result
               ELSE /\ playwright' = playwright
                    /\ EnterRaise("sync_playwright().start() failed")
    /\ UNCHANGED <<emit_ret, callVars, browser, page, closeTried, pending,
                   cascadeVars,
                   siteVars, scanVars, poolVars, fnVars>>

EnterLaunch ==
    /\ pc = "enter_launch"
    /\ \E ok \in BOOLEAN :
         IF ok THEN /\ browser' = "open"
                    /\ pc' = "enter_context"
                    /\ result' = result
               ELSE /\ browser' = browser
                    /\ EnterRaise("chromium.launch failed")
    /\ UNCHANGED <<emit_ret, callVars, playwright, page, closeTried, pending,
                   cascadeVars, siteVars, scanVars, poolVars, fnVars>>

EnterContext ==
    /\ pc = "enter_context"
    /\ \E ok \in BOOLEAN :
         IF ok THEN pc' = "enter_page" /\ result' = result
               ELSE EnterRaise("new_context failed")
    /\ UNCHANGED <<emit_ret, callVars, resVars, pending, cascadeVars, siteVars,
                   scanVars, poolVars, fnVars>>

EnterPage ==
    /\ pc = "enter_page"
    /\ \E ok \in BOOLEAN :
         IF ok THEN /\ page' = "open"
                    /\ pc' = "run_goto"
                    /\ result' = result
               ELSE /\ page' = page
                    /\ EnterRaise("new_page failed")
    /\ UNCHANGED <<emit_ret, callVars, playwright, browser, closeTried,
                   pending,
                   cascadeVars, siteVars, scanVars, poolVars, fnVars>>

-----------------------------------------------------------------------------
(* run: the cascade district -> year -> taluka -> village.                 *)

\* run returns r: the `with` statement goes on to __exit__
RunReturn(r) ==
    /\ pending' = r
    /\ pc' = "exit"

\* an exception leaves run: the `with` statement goes on to __exit__
RunRaise(m) == RunReturn(Raised(m))

\* history of a cascade step
Did(name, ok) ==
    /\ tried' = tried \cup {name}
    /\ okSteps' = IF ok THEN okSteps \cup {name} ELSE okSteps
    /\ count' = IF name \in DOMAIN count
                  THEN [count EXCEPT ![name] = @ + 1]
                  ELSE count

\* callable(self.progress_cb)
Callable(cb) == cb \in {"raises", "returns"}

\* _emit_status without the try around the callback
EmitStatusUnprotected(cb) ==
    IF Callable(cb) /\ cb = "raises" THEN "raised" ELSE "returned"

\* _emit_status(msg): the print is protected; the callback is called only
\* when callable, inside try/except Exception: pass
EmitStatus(cb) ==
    IF ~Callable(cb) THEN "returned"
    ELSE IF cb = "raises" THEN "returned"
    ELSE "returned"

\* the message of an exception that came out of _emit_status
ErrCallback == "progress callback raised"

\* self._emit_status(...) in run, outside any try, then on to nextpc
AfterEmit(nextpc) ==
    /\ emit_ret' = EmitStatus(progress_cb)
    /\ IF EmitStatus(progress_cb) = "raised"
         THEN RunRaise(ErrCallback)
         ELSE pc' = nextpc /\ pending' = pending

\* _emit_status('Navigating IGR'), then page.goto(url) with the district in
\* the URL; the wait for networkidle
\* that follows swallows its timeout
RunGoto ==
    /\ pc = "run_goto"
    /\ \E ok \in BOOLEAN :
         IF EmitStatus(progress_cb) = "raised"
           THEN /\ emit_ret' = "raised"
                /\ RunRaise(ErrCallback)
                /\ UNCHANGED <<tried, okSteps, count>>
           ELSE /\ Did("load", ok)
                /\ IF ok THEN AfterEmit("run_year")
                         ELSE /\ emit_ret' = EmitStatus(progress_cb)
                              /\ RunRaise("page.goto failed")
    /\ UNCHANGED <<callVars, resVars, result, village_ready, radio,
                   siteVars, scanVars, poolVars, fnVars>>

\* first _select_dropdown_label(ddlYear), inside try
RunYear ==
    /\ pc = "run_year"
    /\ \E ok \in BOOLEAN :
         /\ Did("year", ok)
         /\ IF ok
              THEN /\ emit_ret' = EmitStatus(progress_cb)
                   /\ pc' = IF EmitStatus(progress_cb) = "raised"
                              THEN "fb_goto" ELSE "run_taluka"
              ELSE /\ emit_ret' = emit_ret
                   /\ pc' = "fb_goto"
         /\ pending' = pending
    /\ UNCHANGED <<callVars, resVars, result, village_ready, radio,
                   siteVars, scanVars, poolVars, fnVars>>

\* except-branch: page.goto(base_url)
FallbackGoto ==
    /\ pc = "fb_goto"
    /\ \E ok \in BOOLEAN :
         /\ Did("load", ok)
         /\ IF ok THEN pc' = "fb_district" /\ pending' = pending
                  ELSE RunRaise("page.goto(base_url) failed")
    /\ UNCHANGED <<emit_ret, callVars, resVars, result, village_ready, radio,
                   siteVars, scanVars, poolVars, fnVars>>

\* except-branch: _try_select_district_any(district)
FallbackDistrict ==
    /\ pc = "fb_district"
    /\ \E ok \in BOOLEAN :
         /\ Did("district", ok)
         /\ IF ok THEN pc' = "fb_year" /\ pending' = pending
                  ELSE RunReturn(Error(ErrDistrict))
    /\ UNCHANGED <<emit_ret, callVars, resVars, result, village_ready, radio,
                   siteVars, scanVars, poolVars, fnVars>>

\* a second reload when the fallback's year selection fails too
FallbackYearRetry == "fb_goto"

\* where run goes when the year selection of the except-branch raises: the
\* call is not protected, the exception leaves run
FallbackYearFailed == "raise"

\* except-branch: second _select_dropdown_label(ddlYear)
FallbackYear ==
    /\ pc = "fb_year"
    /\ \E ok \in BOOLEAN :
         /\ Did("year", ok)
         /\ IF ok THEN AfterEmit("run_taluka")
            ELSE /\ emit_ret' = emit_ret
                 /\ IF FallbackYearFailed = "raise"
                      THEN RunRaise("year dropdown not selectable")
                      ELSE pc' = FallbackYearFailed /\ pending' = pending
    /\ UNCHANGED <<callVars, resVars, result, village_ready, radio,
                   siteVars, scanVars, poolVars, fnVars>>

\* the exception of a taluka selection swallowed
TalukaFailedSwallowed(first) == "village_wait"

\* where run goes when a taluka selection raises: with translate_admin the
\* first attempt (translated label) is inside try and the original label
\* follows; every other attempt is not protected
TalukaFailed(first) ==
    IF first /\ translate_admin THEN "run_taluka_orig" ELSE "raise"

\* _select_dropdown_label(ddlTaluka, ...): first attempt
RunTaluka ==
    /\ pc = "run_taluka"
    /\ \E ok \in BOOLEAN :
         /\ Did("taluka", ok)
         /\ IF ok THEN AfterEmit("village_wait")
            ELSE /\ emit_ret' = emit_ret
                 /\ IF TalukaFailed(TRUE) = "raise"
                      THEN RunRaise("taluka dropdown not selectable")
                      ELSE pc' = TalukaFailed(TRUE) /\ pending' = pending
    /\ UNCHANGED <<callVars, resVars, result, village_ready, radio,
                   siteVars, scanVars, poolVars, fnVars>>

\* taluka: the original label after the translated one failed
RunTalukaOriginal ==
    /\ pc = "run_taluka_orig"
    /\ \E ok \in BOOLEAN :
         /\ Did("taluka", ok)
         /\ IF ok THEN AfterEmit("village_wait")
            ELSE /\ emit_ret' = emit_ret
                 /\ IF TalukaFailed(FALSE) = "raise"
                      THEN RunRaise("taluka dropdown not selectable")
                      ELSE pc' = TalukaFailed(FALSE) /\ pending' = pending
    /\ UNCHANGED <<callVars, resVars, result, village_ready, radio,
                   siteVars, scanVars, poolVars, fnVars>>

\* page.wait_for_function(ddlVillage.options.length > 1); its timeout is
\* swallowed
VillageWait ==
    /\ pc = "village_wait"
    /\ village_ready' \in BOOLEAN
    /\ pc' = "run_village"
    /\ UNCHANGED <<emit_ret, callVars, resVars, pending, result, tried,
                   okSteps, count,
                   radio, siteVars, scanVars, poolVars, fnVars>>

\* the option scan: an option containing village_key with a value is
\* selected by value; otherwise the fallback by label follows
RunVillage ==
    /\ pc = "run_village"
    /\ \E matched \in BOOLEAN :
         IF matched
           THEN \E ok \in BOOLEAN :
                  /\ Did("village", ok)
                  /\ IF ok THEN AfterEmit("scan_radio")
                           ELSE /\ emit_ret' = emit_ret
                                /\ RunRaise("village option not selectable")
           ELSE /\ pc' = "village_label"
                /\ UNCHANGED <<tried, okSteps, count, pending, emit_ret>>
    /\ UNCHANGED <<callVars, resVars, result, village_ready, radio,
                   siteVars, scanVars, poolVars, fnVars>>

\* fallback: _select_dropdown_label(ddlVillage, village_key), inside try
VillageLabel ==
    /\ pc = "village_label"
    /\ \E ok \in BOOLEAN :
         /\ Did("village", ok)
         /\ IF ok THEN AfterEmit("scan_radio")
                  ELSE /\ pc' = "village_label_orig"
                       /\ UNCHANGED <<pending, emit_ret>>
    /\ UNCHANGED <<callVars, resVars, result, village_ready, radio,
                   siteVars, scanVars, poolVars, fnVars>>

\* fallback: _select_dropdown_label(ddlVillage, village), not protected
VillageLabelOriginal ==
    /\ pc = "village_label_orig"
    /\ \E ok \in BOOLEAN :
         /\ Did("village", ok)
         /\ IF ok THEN AfterEmit("scan_radio")
                  ELSE /\ emit_ret' = emit_ret
                       /\ RunRaise("village dropdown not selectable")
    /\ UNCHANGED <<callVars, resVars, result, village_ready, radio,
                   siteVars, scanVars, poolVars, fnVars>>

-----------------------------------------------------------------------------
(* run: the SubZones scan.                                                 *)

\* _select_radio_option: click by exact text, by loose text, by label, by
\* radio scan, first success wins; works is the set of strategies the page
\* lets succeed
SelectRadioOption(works) ==
    \/ "exact" \in works
    \/ "loose" \in works
    \/ "label" \in works
    \/ "scan" \in works

\* _ensure_radio_selected
EnsureRadioSelected(works) == "ensure" \in works

\* a failed radio selection reported as an error
AfterRadioAbort(selected) == IF selected THEN "scan_grid" ELSE "abort"

\* where run goes after the radio: when neither call selected it, run logs
\* "proceeding assuming it is default" and goes on like after a success
AfterRadio(selected) == "scan_grid"

\* _select_radio_option('SubZones') or _ensure_radio_selected('SubZones')
ScanRadio ==
    /\ pc = "scan_radio"
    /\ \E works \in SUBSET RadioStrategies :
         LET selected == SelectRadioOption(works) \/ EnsureRadioSelected(works)
         IN /\ radio' = IF selected THEN "selected" ELSE "failed"
            /\ IF AfterRadio(selected) = "scan_grid"
                 THEN pc' = "scan_grid" /\ pending' = pending
                 ELSE RunReturn(Error("Could not switch to SubZones"))
    /\ UNCHANGED <<emit_ret, callVars, resVars, result, tried, okSteps, count,
                   village_ready, siteVars, scanVars, poolVars, fnVars>>

\* ctx_tbl = _find_context_with_selector(results_table_sel)
ScanFindGrid ==
    /\ pc = "scan_grid"
    /\ \E found \in BOOLEAN :
         IF found THEN pc' = "scan_html" /\ pending' = pending
                  ELSE RunReturn(Error(ErrNoGrid))
    /\ UNCHANGED <<emit_ret, callVars, resVars, result, cascadeVars, siteVars,
                   scanVars,
                   poolVars, fnVars>>

\* current_page = 1; prev_html = inner_html(): a failure is caught by the
\* try around the scan
ScanPrevHtml ==
    /\ pc = "scan_html"
    /\ current_page' = 1
    /\ \E ok \in BOOLEAN :
         IF ok THEN /\ pc' = "scan_parse"
                    /\ UNCHANGED <<pending, scanFault>>
               ELSE /\ scanFault' = TRUE
                    /\ RunReturn(Error(ErrScan))
    /\ UNCHANGED <<emit_ret, callVars, resVars, result, cascadeVars, siteVars,
                   shown,
                   textarea, parsed, rows, rowIdx, prev_text_val, val,
                   visited, passesDone, row_clicked, verdict, poll_read, grid_changed,
                   poolVars, fnVars>>

\* only the rows whose column-2 text is not 'c' are kept
ParseRowsByText ==
    LET KeepRow(r) == col2[r] # <<"c">>
    IN SelectSeq([j \in 1..rowsPerPage |-> <<shown, j>>], KeepRow)

\* _parse_rows: the rows of the displayed grid that carry a SurveyNo link,
\* each identified by <<content page, row>>; col2_text and col3_rate are
\* those of that row
ParseRows == [j \in 1..rowsPerPage |-> <<shown, j>>]

\* top of `while True`: rows = _parse_rows() ([] when parsing raises)
ScanParse ==
    /\ pc = "scan_parse"
    /\ \E ok \in BOOLEAN :
         rows' = IF ok THEN ParseRows ELSE <<>>
    /\ parsed' = Append(parsed, shown)
    /\ rowIdx' = 1
    /\ visited' = {}
    /\ pc' = IF rows' = <<>> THEN "pager" ELSE "scan_row"
    /\ UNCHANGED <<emit_ret, callVars, resVars, pending, result, cascadeVars,
                   siteVars,
                   shown, textarea, current_page, prev_text_val, val,
                   passesDone, row_clicked, verdict, poll_read, grid_changed, scanFault,
                   poolVars, fnVars>>

\* the `for` statement after row i: the next row, or the loop body ends
NextRow(i) == IF i < Len(rows) THEN "scan_row" ELSE "pager"

NextIdx(i) == IF i < Len(rows) THEN i + 1 ELSE i

\* one row up to the click: no link (continue), an exception (continue), or
\* prev_text_val is read ('' when that raises) and the link is clicked; the
\* site then shows some detail text, or leaves the textarea as it is
ScanRow ==
    /\ pc = "scan_row"
    /\ visited' = visited \cup {rows[rowIdx]}
    /\ verdict' = "none"
    /\ poll_read' = "none"
    /\ val' = <<>>
    /\ \E how \in {"nolink", "raise", "click"} :
         IF how = "click"
           THEN /\ \E readOk \in BOOLEAN :
                     prev_text_val' = IF readOk THEN textarea ELSE <<>>
                /\ row_clicked' = TRUE
                /\ textarea' \in DetailTexts \cup {textarea}
                /\ pc' = "scan_verify"
                /\ rowIdx' = rowIdx
           ELSE /\ pc' = NextRow(rowIdx)
                /\ rowIdx' = NextIdx(rowIdx)
                /\ prev_text_val' = <<>>
                /\ UNCHANGED <<row_clicked, textarea>>
    /\ UNCHANGED <<emit_ret, callVars, resVars, pending, result, cascadeVars,
                   siteVars,
                   shown, current_page, parsed, rows, passesDone,
                   grid_changed, scanFault, poolVars, fnVars>>

\* `if val and val.strip() and val != prev_value: break`
BreaksPolling(read, prev_value) ==
    /\ read # <<>>
    /\ Without(read, {Space, "\t"}) # <<>>
    /\ read # prev_value

\* a text that did not change counted as no text
PolledValueIfChanged(read, prev_value) ==
    IF read = prev_value THEN <<>> ELSE read

\* val after the 60 polls when the last read returned read: the loop ends
\* early on a non-empty text different from prev_value, and when it runs
\* out val is what was read last, changed or not
PolledValue(read, prev_value) == read

\* _textbox_has_all_surveys(prev_text_val) and the branch on its answer:
\* val is what the last poll read ('' when the read raised)
ScanVerify ==
    /\ pc = "scan_verify"
    /\ \E readOk \in BOOLEAN :
         /\ val' = IF readOk THEN PolledValue(textarea, prev_text_val)
                             ELSE <<>>
         /\ poll_read' = IF ~readOk THEN "raised"
                         ELSE IF BreaksPolling(textarea, prev_text_val)
                           THEN "changed"
                         ELSE "unchanged"
    /\ prev_text_val' = <<>>
    /\ IF TextboxHasAllSurveys(val', surveys)
         THEN /\ verdict' = "accepted"
              /\ emit_ret' = EmitStatus(progress_cb)
              /\ IF EmitStatus(progress_cb) = "raised"
                   THEN RunReturn(Error(ErrScan))
                   ELSE RunReturn(Success(rows[rowIdx], val'))
              /\ rowIdx' = rowIdx
         ELSE /\ verdict' = "rejected"
              /\ emit_ret' = emit_ret
              /\ pc' = NextRow(rowIdx)
              /\ rowIdx' = NextIdx(rowIdx)
              /\ pending' = pending
    /\ UNCHANGED <<callVars, resVars, result, cascadeVars, siteVars, shown,
                   textarea, current_page, parsed, rows, visited, passesDone,
                   row_clicked, grid_changed, scanFault, poolVars, fnVars>>

-----------------------------------------------------------------------------
(* run: the page advance.                                                  *)

\* `.cssPager a:has-text(next_page)`: the pager holds a link for every page
\* but the displayed one
PagerHasLink(n) == n <= numPages /\ n # shown

\* ctx_tbl.get_by_text(str(next_page), exact=True): searches the whole page
\* or frame, not only the grid
TextElsewhere(n) == n > numPages /\ n <= numPages + stray

\* the locator run takes for next_page: the pager link, else the element
\* found by its text; "none" when both are empty
PagerLink(n) ==
    IF PagerHasLink(n) THEN "link"
    ELSE IF TextElsewhere(n) THEN "stray"
    ELSE "none"

\* the row loop of the pass has ended with every parsed row handled
PassDone == visited = {rows[i] : i \in 1..Len(rows)}

\* an exception in place of the error result
NoNextPageRaises == Raised("No matching subzone row found")

\* the break leading on to step 4, whose radio selection raises
NoNextPageSearches == Raised("Could not select 'Survey No.' radio option")

\* what run does when the lookup finds no control for next_page: break, and
\* the return after the loop
NoNextPage == Error(ErrExhausted)

\* next_page = current_page + 1 and the lookup of its control: a failure
\* inside the try gives pager_link = None (break); pager_link.count() after
\* the try is not protected by it
PagerLookup ==
    /\ pc = "pager"
    /\ passesDone' = IF PassDone THEN passesDone + 1 ELSE passesDone
    /\ \E how \in {"ok", "raise_lookup", "raise_count"} :
         CASE how = "raise_lookup" ->
                /\ scanFault' = TRUE
                /\ RunReturn(Error(ErrExhausted))
           [] how = "raise_count" ->
                /\ scanFault' = TRUE
                /\ RunReturn(Error(ErrScan))
           [] how = "ok" ->
                /\ scanFault' = scanFault
                /\ IF PagerLink(current_page + 1) = "none"
                     THEN RunReturn(NoNextPage)
                     ELSE pc' = "pager_click" /\ pending' = pending
    /\ UNCHANGED <<emit_ret, callVars, resVars, result, cascadeVars, siteVars,
                   shown,
                   textarea, current_page, parsed, rows, rowIdx,
                   prev_text_val, val, visited, row_clicked, verdict, poll_read,
                   grid_changed, poolVars, fnVars>>

\* what the grid displays once both bounded polls are over: a click on the
\* pager link brings page n or, when the site does not answer in time, leaves
\* the grid as it is; a click on other text never changes the grid
ShownAfterClick(n) ==
    IF PagerLink(n) = "link" THEN {n, shown} ELSE {shown}

\* pre_sig, pager_link.first.click() (an exception breaks the loop), the two
\* bounded polls, current_page = next_page
PagerClick ==
    /\ pc = "pager_click"
    /\ \E ok \in BOOLEAN :
         IF ok
           THEN /\ shown' \in ShownAfterClick(current_page + 1)
                /\ grid_changed' = (shown' # shown)
                /\ current_page' = current_page + 1
                /\ pc' = "scan_parse"
                /\ UNCHANGED <<pending, scanFault>>
           ELSE /\ scanFault' = TRUE
                /\ RunReturn(Error(ErrExhausted))
                /\ UNCHANGED <<shown, grid_changed, current_page>>
    /\ UNCHANGED <<emit_ret, callVars, resVars, result, cascadeVars, siteVars,
                   textarea,
                   parsed, rows, rowIdx, prev_text_val, val, visited,
                   passesDone, row_clicked, verdict, poll_read, poolVars, fnVars>>

-----------------------------------------------------------------------------
(* __exit__: page.close(), browser.close(), playwright.stop() in nested    *)
(* try/finally: every close step runs whatever the others did, and an      *)
(* exception of a close step replaces what run returned.                   *)

AfterClose(ok) == IF ok THEN pending ELSE Raised("close failed")

Exit ==
    /\ pc = "exit"
    /\ \E okPage \in BOOLEAN, okBrowser \in BOOLEAN, okPlaywright \in BOOLEAN :
         /\ page' = IF okPage \/ okBrowser THEN "closed" ELSE page
         /\ browser' = IF okBrowser THEN "closed" ELSE browser
         /\ playwright' = IF okPlaywright THEN "stopped" ELSE playwright
         /\ result' = AfterClose(okPage /\ okBrowser /\ okPlaywright)
    /\ closeTried' = {"page", "browser", "playwright"}
    /\ pc' = "returned"
    /\ UNCHANGED <<emit_ret, callVars, pending, cascadeVars, siteVars,
                   scanVars,
                   poolVars, fnVars>>

-----------------------------------------------------------------------------

InitPoolIdle ==
    /\ tl_browser = <<>>
    /\ launches = <<>>
    /\ sess = <<>>
    /\ nextPage = 0
    /\ nextBrowser = 0
    /\ openPages = {}
    /\ done = <<>>

\* no document has been post-processed
NoTables == [fn |-> "", filtered |-> <<>>, top |-> <<>>, avg |-> <<>>]

InitDocIdle ==
    /\ base_rows = <<>>
    /\ followup = NoTables

InitFlaskIdle ==
    /\ image_processing = FALSE
    /\ requests = <<>>

InitAppIdle == InitDocIdle /\ InitFlaskIdle

InitFnIdle ==
    /\ InitAppIdle
    /\ translate_cache = {}
    /\ fn_call = [fn |-> "", arg |-> <<>>]
    /\ fn_ret = [kind |-> "none", val |-> <<>>]
    /\ calls = 0
    /\ translators = <<>>

Init == InitSess /\ InitPoolIdle /\ InitFnIdle

Next ==
    \/ ProcessIgrFromDoc
    \/ DirectRun
    \/ EnterPlaywright
    \/ EnterLaunch
    \/ EnterContext
    \/ EnterPage
    \/ RunGoto
    \/ RunYear
    \/ FallbackGoto
    \/ FallbackDistrict
    \/ FallbackYear
    \/ RunTaluka
    \/ RunTalukaOriginal
    \/ VillageWait
    \/ RunVillage
    \/ VillageLabel
    \/ VillageLabelOriginal
    \/ ScanRadio
    \/ ScanFindGrid
    \/ ScanPrevHtml
    \/ ScanParse
    \/ ScanRow
    \/ ScanVerify
    \/ PagerLookup
    \/ PagerClick
    \/ Exit

Spec == Init /\ [][Next]_vars

\* a session on a grid of two pages with one row each, started with every
\* kind of progress callback
InitEmit ==
    /\ InitSession
    /\ numPages = 2
    /\ rowsPerPage = 1
    /\ stray = 0
    /\ progress_cb \in ProgressCallbacks
    /\ PlainGrid
    /\ InitPoolIdle
    /\ InitFnIdle

SpecEmit == InitEmit /\ [][Next]_vars

\* a session on a grid of one page with two rows, for every column-2 text of
\* the two rows, in a document that shows the text '2' outside the pager
InitGrid ==
    /\ InitSession
    /\ numPages = 1
    /\ rowsPerPage = 2
    /\ stray = 1
    /\ progress_cb = "absent"
    /\ col2 \in [GridCells -> SubzoneTexts]
    /\ InitPoolIdle
    /\ InitFnIdle

SpecGrid == InitGrid /\ [][Next]_vars

-----------------------------------------------------------------------------
(* The browser pool of method2.py (specification SpecPool): every worker   *)
(* thread serves one request at a time; a request is one session of        *)
(* get_land_rate or get_land_rate_with_progress.                           *)

\* gunicorn.conf.py: threads = 2
threads == 2

Threads == 1..threads

\* hasattr(_thread_local, 'browser_instance') is false
NoInstance == [state |-> "unset", id |-> 0]

\* _thread_local.browser_instance = None
FailedInstance == [state |-> "failed", id |-> 0]

\* _thread_local.browser_instance = {'playwright': ..., 'browser': ...}
Instance(b) == [state |-> "ready", id |-> b]

\* IGRScraper.__init__: self.page = None (0); held is the page created for
\* the session, closeCalled whether page.close() was called on it
NoSession ==
    [st |-> "idle", fn |-> "", browser |-> 0, page |-> 0, held |-> 0,
     closeCalled |-> FALSE, error |-> ""]

NewScraper(f) == [NoSession EXCEPT !.st = "start", !.fn = f]

\* the page created last handed out again
SharedPage == IF nextPage = 0 THEN 1 ELSE nextPage

\* browser.new_page(): a page object that did not exist before
NewPage == nextPage + 1

\* scraper = IGRScraper(headless=True) in get_land_rate and in
\* get_land_rate_with_progress
NewSession(t) ==
    /\ sess[t].st \in {"idle", "returned"}
    /\ done[t] < MaxSessions
    /\ \E f \in {"get_land_rate", "get_land_rate_with_progress"} :
         sess' = [sess EXCEPT ![t] = NewScraper(f)]
    /\ UNCHANGED <<tl_browser, launches, nextPage, nextBrowser, openPages,
                   done, sessVars, fnVars>>

\* raise Exception("Failed to initialize browser"), which scrape_data and
\* get_land_rate_with_progress turn into {"error": str(e)}
ErrInitBrowser == "Failed to initialize browser"

\* a launch is tried again after one that failed
NeedsLaunchUnlessReady(inst) == inst.state # "ready"

\* not hasattr(_thread_local, 'browser_instance')
NeedsLaunch(inst) == inst = NoInstance

\* get_browser_instance: the first call of a thread starts Playwright and
\* launches the browser, or stores None when that fails; later calls return
\* what is stored
GetBrowserInstance(t) ==
    /\ sess[t].st = "start"
    /\ IF NeedsLaunch(tl_browser[t])
         THEN /\ launches' = [launches EXCEPT ![t] = @ + 1]
              /\ \E ok \in BOOLEAN :
                   IF ok
                     THEN /\ tl_browser' =
                               [tl_browser EXCEPT ![t] = Instance(nextBrowser + 1)]
                          /\ nextBrowser' = nextBrowser + 1
                     ELSE /\ tl_browser' =
                               [tl_browser EXCEPT ![t] = FailedInstance]
                          /\ nextBrowser' = nextBrowser
         ELSE UNCHANGED <<tl_browser, launches, nextBrowser>>
    /\ sess' = [sess EXCEPT ![t].st = "got_instance"]
    /\ UNCHANGED <<nextPage, openPages, done, sessVars, fnVars>>

\* start_browser after get_browser_instance: a new page of the thread's
\* browser, or an exception (no instance, or new_page fails), which the
\* caller's try catches
StartBrowser(t) ==
    /\ sess[t].st = "got_instance"
    /\ IF tl_browser[t].state = "ready"
         THEN \E ok \in BOOLEAN :
                IF ok
                  THEN /\ sess' = [sess EXCEPT ![t].st = "working",
                                               ![t].browser = tl_browser[t].id,
                                               ![t].page = NewPage,
                                               ![t].held = NewPage]
                       /\ openPages' = openPages \cup {NewPage}
                       /\ nextPage' = nextPage + 1
                  ELSE /\ sess' = [sess EXCEPT ![t].st = "finally",
                                               ![t].browser = tl_browser[t].id,
                                               ![t].error = "new_page failed"]
                       /\ UNCHANGED <<openPages, nextPage>>
         ELSE /\ sess' = [sess EXCEPT ![t].st = "finally",
                                      ![t].error = ErrInitBrowser]
              /\ UNCHANGED <<openPages, nextPage>>
    /\ UNCHANGED <<tl_browser, launches, nextBrowser, done, sessVars, fnVars>>

\* the scraping on self.page: it returns a result or an error dictionary,
\* every exception is caught; the finally clause follows
Scrape(t) ==
    /\ sess[t].st = "working"
    /\ sess' = [sess EXCEPT ![t].st = "finally"]
    /\ UNCHANGED <<tl_browser, launches, nextPage, nextBrowser, openPages,
                   done, sessVars, fnVars>>

\* close_browser in the finally clause: if self.page: self.page.close();
\* self.page = None (not reached when close raises)
CloseBrowser(t) ==
    /\ sess[t].st = "finally"
    /\ IF sess[t].page # 0
         THEN \E ok \in BOOLEAN :
                IF ok
                  THEN /\ sess' = [sess EXCEPT ![t].st = "returned",
                                               ![t].page = 0,
                                               ![t].closeCalled = TRUE]
                       /\ openPages' = openPages \ {sess[t].page}
                  ELSE /\ sess' = [sess EXCEPT ![t].st = "returned",
                                               ![t].closeCalled = TRUE]
                       /\ openPages' = openPages
         ELSE /\ sess' = [sess EXCEPT ![t].st = "returned"]
              /\ openPages' = openPages
    /\ done' = [done EXCEPT ![t] = @ + 1]
    /\ UNCHANGED <<tl_browser, launches, nextPage, nextBrowser, sessVars, fnVars>>

InitPool ==
    /\ InitSess
    /\ numPages = 1
    /\ rowsPerPage = 0
    /\ stray = 0
    /\ tl_browser = [t \in Threads |-> NoInstance]
    /\ launches = [t \in Threads |-> 0]
    /\ sess = [t \in Threads |-> NoSession]
    /\ nextPage = 0
    /\ nextBrowser = 0
    /\ openPages = {}
    /\ done = [t \in Threads |-> 0]
    /\ InitFnIdle

NextPool ==
    \E t \in Threads :
        \/ NewSession(t)
        \/ GetBrowserInstance(t)
        \/ StartBrowser(t)
        \/ Scrape(t)
        \/ CloseBrowser(t)

SpecPool == InitPool /\ [][NextPool]_vars

-----------------------------------------------------------------------------
(* The text functions of NEWmethod2.py (specification SpecText).  A        *)
(* character is a one-character string, or the name of its code point      *)
(* when it is not ASCII; a text is a sequence of characters.               *)

\* Python's None
None == <<"None">>

\* U+00A0 no-break space
NBSP == "U+00A0"

\* U+200C zero width non-joiner
ZWNJ == "U+200C"

\* U+0905, a letter of the Devanagari block
DevLetterA == "U+0905"

\* U+0915, a letter of the Devanagari block
DevLetterKa == "U+0915"

\* U+096A, the digit four of the Devanagari block
DevDigit4 == "U+096A"

\* U+0964, the danda, a punctuation mark of the Devanagari block
Danda == "U+0964"

\* what \s matches and str.strip() removes
IsSpace(c) == c \in {" ", "\t", "\n", NBSP}

\* what \d matches in a str pattern: the decimal digits of every script
IsDigit(c) == c \in {"1", "2", "3", "4", DevDigit4}

\* what [A-Za-z\u0900-\u097F] matches: the Latin letters and the whole
\* Devanagari block, its digits and marks included
IsLetter(c) ==
    c \in {"A", "B", "a", "b", DevLetterA, DevLetterKa, DevDigit4, Danda}

\* str.lower() on one character
LowerChar(c) == IF c = "A" THEN "a" ELSE IF c = "B" THEN "b" ELSE c

\* str.lower()
Lower(s) == [i \in 1..Len(s) |-> LowerChar(s[i])]

\* str.replace(a, b) for a single character a and a one-character b
ReplaceChar(s, a, b) == [i \in 1..Len(s) |-> IF s[i] = a THEN b ELSE s[i]]

\* str.lstrip()
RECURSIVE LStrip(_)
LStrip(s) ==
    IF s # <<>> /\ IsSpace(Head(s)) THEN LStrip(Tail(s)) ELSE s

\* str.rstrip()
RECURSIVE RStrip(_)
RStrip(s) ==
    IF s # <<>> /\ IsSpace(s[Len(s)])
      THEN RStrip(SubSeq(s, 1, Len(s) - 1))
      ELSE s

\* str.strip()
Strip(s) == RStrip(LStrip(s))

\* re.sub(r"\s+", " ", s): every run of whitespace becomes one space
RECURSIVE CollapseSpaces(_)
CollapseSpaces(s) ==
    IF s = <<>> THEN <<>>
    ELSE IF IsSpace(Head(s))
           THEN <<" ">> \o CollapseSpaces(LStrip(s))
           ELSE <<Head(s)>> \o CollapseSpaces(Tail(s))

\* the text trimmed before the characters are replaced, not after
CleanTextStripFirst(s) ==
    IF s = None \/ s = <<>>
      THEN <<>>
      ELSE CollapseSpaces(ReplaceChar(Without(Strip(s), {ZWNJ}), NBSP, " "))

\* the cleaned text with str.lower() applied as well
CleanTextCaseFolded(s) ==
    IF s = None \/ s = <<>>
      THEN <<>>
      ELSE Lower(Strip(CollapseSpaces(ReplaceChar(Without(s, {ZWNJ}), NBSP,
                                                  " "))))

\* _clean_text
CleanText(s) ==
    IF s = None \/ s = <<>>
      THEN <<>>
      ELSE Strip(CollapseSpaces(ReplaceChar(Without(s, {ZWNJ}), NBSP, " ")))

\* the characters re.sub(r"[\s\-\(\)\.:/]+", "", s) removes, among those of
\* the model
IsNormRemoved(c) == IsSpace(c) \/ c \in {"-", "(", ")", ".", ":", "/"}

\* the text without the characters of that class
RECURSIVE RemoveNormClass(_)
RemoveNormClass(s) ==
    IF s = <<>> THEN <<>>
    ELSE IF IsNormRemoved(Head(s)) THEN RemoveNormClass(Tail(s))
         ELSE <<Head(s)>> \o RemoveNormClass(Tail(s))

\* _norm_mr
NormMr(s) ==
    Lower(RemoveNormClass(Strip(IF s = None THEN <<>> ELSE s)))

\* str.split('/'): the pieces between the slashes, empty ones included
RECURSIVE SplitSlash(_, _)
SplitSlash(s, piece) ==
    IF s = <<>> THEN <<piece>>
    ELSE IF Head(s) = "/" THEN <<piece>> \o SplitSlash(Tail(s), <<>>)
         ELSE SplitSlash(Tail(s), Append(piece, Head(s)))

\* [p.strip() for p in pieces if p.strip()]
RECURSIVE StrippedNonEmpty(_)
StrippedNonEmpty(pieces) ==
    IF pieces = <<>> THEN <<>>
    ELSE IF Strip(Head(pieces)) = <<>> THEN StrippedNonEmpty(Tail(pieces))
         ELSE <<Strip(Head(pieces))>> \o StrippedNonEmpty(Tail(pieces))

\* parts = [p.strip() for p in txt.split('/') if p.strip()]
Parts(txt) == StrippedNonEmpty(SplitSlash(txt, <<>>))

\* re.match(r"^(\d+)", s).group(1), <<>> when there is no match
RECURSIVE LeadingDigits(_)
LeadingDigits(s) ==
    IF s # <<>> /\ IsDigit(Head(s))
      THEN <<Head(s)>> \o LeadingDigits(Tail(s))
      ELSE <<>>

\* the whole segment taken as the suffix
LeadingAnything(s) == s

\* re.match(r"^([A-Za-z\u0900-\u097F]+)", s).group(1), <<>> when no match
RECURSIVE LeadingLetters(_)
LeadingLetters(s) ==
    IF s # <<>> /\ IsLetter(Head(s))
      THEN <<Head(s)>> \o LeadingLetters(Tail(s))
      ELSE <<>>

\* a first segment without leading digits accepted
ConsiderPartsNoDigitCheck(parts) ==
    IF parts = <<>> THEN None
    ELSE LET base_num == LeadingDigits(parts[1])
         IN IF Len(parts) = 1 THEN base_num
            ELSE IF IsDigit(parts[2][1]) THEN base_num
            ELSE base_num \o LeadingLetters(parts[2])

\* the second segment appended whatever it begins with
ConsiderPartsAppendSecond(parts) ==
    IF parts = <<>> THEN None
    ELSE LET base_num == LeadingDigits(parts[1])
         IN IF base_num = <<>> THEN None
            ELSE IF Len(parts) = 1 THEN base_num
            ELSE base_num \o parts[2]

\* the third segment looked at when the second is a numeral
ConsiderPartsThirdSegment(parts) ==
    IF parts = <<>> THEN None
    ELSE LET base_num == LeadingDigits(parts[1])
         IN IF base_num = <<>> THEN None
            ELSE IF Len(parts) = 1 THEN base_num
            ELSE IF IsDigit(parts[2][1])
              THEN IF Len(parts) >= 3
                     THEN base_num \o LeadingLetters(parts[3])
                     ELSE base_num
            ELSE base_num \o LeadingLetters(parts[2])

\* the part of _consider_survey_number after `parts` is known
ConsiderParts(parts) ==
    IF parts = <<>> THEN None
    ELSE LET base_num == LeadingDigits(parts[1])
         IN IF base_num = <<>> THEN None
            ELSE IF Len(parts) = 1 THEN base_num
            ELSE IF IsDigit(parts[2][1]) THEN base_num
            ELSE base_num \o LeadingLetters(parts[2])

\* _consider_survey_number
ConsiderSurveyNumber(raw) ==
    LET txt == CleanText(raw)
    IN IF txt = <<>> THEN None ELSE ConsiderParts(Parts(txt))

\* the texts of at most n characters taken from chars
Texts(chars, n) == UNION {[1..k -> chars] : k \in 0..n}

\* characters of the raw survey texts
SurveyChars == {"1", "/", "A", " ", "-", DevLetterA, DevDigit4, Danda}

\* the raw values given to _consider_survey_number
RawSurveys == Texts(SurveyChars, MaxRawLen) \cup {None}

\* characters of the texts given to the two normalizations
NormChars == {"A", "a", " ", "\t", NBSP, ZWNJ, "-", "/"}

\* the values given to _clean_text and _norm_mr
RawTexts == Texts(NormChars, MaxTextLen) \cup {None}

\* the call returned v
Returned(v) == [kind |-> "return", val |-> v]

\* s = _clean_text(s)
CallCleanText ==
    /\ calls = 0
    /\ \E s \in RawTexts :
         /\ fn_call' = [fn |-> "_clean_text", arg |-> s]
         /\ fn_ret' = Returned(CleanText(s))
    /\ calls' = 1
    /\ UNCHANGED <<translate_cache, translators, appVars, sessVars,
                   poolVars>>

\* _norm_mr(s)
CallNormMr ==
    /\ calls = 0
    /\ \E s \in RawTexts :
         /\ fn_call' = [fn |-> "_norm_mr", arg |-> s]
         /\ fn_ret' = Returned(NormMr(s))
    /\ calls' = 1
    /\ UNCHANGED <<translate_cache, translators, appVars, sessVars,
                   poolVars>>

\* _consider_survey_number(raw)
CallConsiderSurveyNumber ==
    /\ calls = 0
    /\ \E raw \in RawSurveys :
         /\ fn_call' = [fn |-> "_consider_survey_number", arg |-> raw]
         /\ fn_ret' = Returned(ConsiderSurveyNumber(raw))
    /\ calls' = 1
    /\ UNCHANGED <<translate_cache, translators, appVars, sessVars,
                   poolVars>>

\* what a translation service does when called: it is not installed, it
\* raises, or it returns a value
Unavailable == [kind |-> "unavailable", val |-> <<>>]

Raises == [kind |-> "raise", val |-> <<>>]

Value(v) == [kind |-> "value", val |-> v]

\* what deep_translator and googletrans can answer
ServiceReplies ==
    {Unavailable, Raises, Value(None), Value(<<" ">>), Value(<<"A">>)}

\* what unidecode can answer (the fallback defined when the import fails
\* returns its argument, a non-empty text)
UnidecodeReplies == {Raises, Value(<<>>), Value(<<" ", "a">>)}

\* the names given to _translate_to_en
Names ==
    {None, <<>>, <<" ">>, <<DevLetterA>>, <<" ", DevLetterKa>>}

\* t in _translate_cache
InCache(cache, t) == \E p \in cache : p[1] = t

\* _translate_cache[t]
CacheGet(cache, t) == (CHOOSE p \in cache : p[1] = t)[2]

\* _translate_cache[t] = out
CachePut(cache, t, out) == {p \in cache : p[1] # t} \cup {<<t, out>>}

\* the translation returned as it is, empty or not
OrOriginalNoFallback(out, t) == IF out = None THEN <<>> ELSE Strip(out)

\* (out or '').strip() or t
OrOriginal(out, t) ==
    LET stripped == IF out = None THEN <<>> ELSE Strip(out)
    IN IF stripped = <<>> THEN t ELSE stripped

\* _translate_to_en: the value returned and the cache left behind
TranslateToEn(name, cache, deep, gt, uni) ==
    IF name = None \/ name = <<>>
      THEN [out |-> name, cache |-> cache]
    ELSE LET t == Strip(name)
         IN IF t = <<>> THEN [out |-> t, cache |-> cache]
            ELSE IF InCache(cache, t)
              THEN [out |-> CacheGet(cache, t), cache |-> cache]
            ELSE IF deep.kind = "value"
              THEN [out |-> OrOriginal(deep.val, t),
                    cache |-> CachePut(cache, t, OrOriginal(deep.val, t))]
            ELSE IF gt.kind = "value"
              THEN [out |-> OrOriginal(gt.val, t),
                    cache |-> CachePut(cache, t, OrOriginal(gt.val, t))]
            ELSE IF uni.kind = "value" /\ Strip(uni.val) # <<>>
              THEN [out |-> Strip(uni.val),
                    cache |-> CachePut(cache, t, Strip(uni.val))]
            ELSE [out |-> t, cache |-> cache]

\* _translate_to_en(name), possibly after earlier calls that filled the cache
CallTranslateToEn ==
    /\ calls < MaxCalls
    /\ calls = 0 \/ fn_call.fn = "_translate_to_en"
    /\ \E name \in Names, deep \in ServiceReplies, gt \in ServiceReplies,
          uni \in UnidecodeReplies :
         LET r == TranslateToEn(name, translate_cache, deep, gt, uni)
         IN /\ fn_call' = [fn |-> "_translate_to_en", arg |-> name,
                           deep |-> deep, gt |-> gt, uni |-> uni]
            /\ fn_ret' = Returned(r.out)
            /\ translate_cache' = r.cache
    /\ calls' = calls + 1
    /\ UNCHANGED <<translators, appVars, sessVars,
                   poolVars>>

\* the sequences of at most n elements of S
SeqsUpTo(S, n) == UNION {[1..k -> S] : k \in 0..n}

\* texts of the survey column of a document: '1/A', 'A', '', '2 ', '/'
CellTexts == {<<"1", "/", "A">>, <<"A">>, <<>>, <<"2", " ">>, <<"/">>}

\* a loop that gives up at the first cell the parser refuses
RECURSIVE ExtractUntilMalformed(_)
ExtractUntilMalformed(cells) ==
    IF cells = <<>> THEN <<>>
    ELSE LET considered == ConsiderSurveyNumber(CleanText(Head(cells)))
         IN IF considered = None THEN <<>>
            ELSE <<considered>> \o ExtractUntilMalformed(Tail(cells))

\* the loop of extract_admin_and_surveys_from_docx over the rows below the
\* header: an empty cell and a cell the parser refuses are passed over
RECURSIVE ExtractSurveys(_)
ExtractSurveys(cells) ==
    IF cells = <<>> THEN <<>>
    ELSE LET cell_text == CleanText(Head(cells))
             considered == ConsiderSurveyNumber(cell_text)
         IN IF cell_text # <<>> /\ considered # None /\ considered # <<>>
              THEN <<considered>> \o ExtractSurveys(Tail(cells))
              ELSE ExtractSurveys(Tail(cells))

\* extract_admin_and_surveys_from_docx: the survey list it returns; without
\* a table holding the header the list is empty
CallExtract ==
    /\ calls = 0
    /\ \E cells \in SeqsUpTo(CellTexts, MaxCells), hasTable \in BOOLEAN :
         /\ fn_call' = [fn |-> "extract_admin_and_surveys_from_docx",
                        arg |-> cells, hasTable |-> hasTable]
         /\ fn_ret' = Returned(IF hasTable THEN ExtractSurveys(cells)
                                           ELSE <<>>)
    /\ calls' = 1
    /\ UNCHANGED <<translate_cache, translators, appVars, sessVars,
                   poolVars>>

\* column-2 texts of a grid page: 'a b', 'a', 'c', '-'
Col2Texts == {<<"a", " ", "b">>, <<"a">>, <<"c">>, <<"-">>}

\* entries of recorded_first_col: 'A-B', 'a', '-'
RecordedTexts == {<<"A", "-", "B">>, <<"a">>, <<"-">>}

\* a <tr> of the grid: its number of cells and the text of the second
GridRows == [tds : {2, 3}, col2 : Col2Texts]

\* recorded_norm = [_norm_mr(x) for x in recorded_first_col if x]
RECURSIVE RecordedNorm(_)
RecordedNorm(recorded) ==
    IF recorded = <<>> THEN <<>>
    ELSE IF Head(recorded) = <<>> THEN RecordedNorm(Tail(recorded))
         ELSE <<NormMr(Head(recorded))>> \o RecordedNorm(Tail(recorded))

\* for k in recorded_norm: if not k: continue; if c2n == k: matched_key = k
\* (the first non-empty key equal to c2n, None when there is none)
RECURSIVE FirstEqualKey(_, _)
FirstEqualKey(c2n, keys) ==
    IF keys = <<>> THEN None
    ELSE IF Head(keys) # <<>> /\ c2n = Head(keys) THEN Head(keys)
    ELSE FirstEqualKey(c2n, Tail(keys))

\* for k in recorded_norm: if not k: continue;
\* if (k in c2n) or (c2n in k): matched_key = k
RECURSIVE FirstContainKey(_, _)
FirstContainKey(c2n, keys) ==
    IF keys = <<>> THEN None
    ELSE IF /\ Head(keys) # <<>>
            /\ IsSubstring(Head(keys), c2n) \/ IsSubstring(c2n, Head(keys))
      THEN Head(keys)
    ELSE FirstContainKey(c2n, Tail(keys))

\* no key is tried by containment
MatchedKeyEqualOnly(c2n, keys) ==
    IF FirstEqualKey(c2n, keys) # None
      THEN [how |-> "equality", key |-> FirstEqualKey(c2n, keys)]
      ELSE [how |-> "", key |-> None]

\* matched_key for one row, and which of the two loops set it
MatchedKey(c2n, keys) ==
    IF FirstEqualKey(c2n, keys) # None
      THEN [how |-> "equality", key |-> FirstEqualKey(c2n, keys)]
    ELSE IF FirstContainKey(c2n, keys) # None
      THEN [how |-> "contains", key |-> FirstContainKey(c2n, keys)]
    ELSE [how |-> "", key |-> None]

\* return False
NoMatch ==
    [found |-> FALSE, row_index |-> 0, how |-> "", matched_key |-> None,
     examined |-> 0]

\* matched_row_info of row idx + 1, return True; `examined` counts the rows
\* the loop has looked at
RowMatch(i, m) ==
    [found |-> TRUE, row_index |-> i, how |-> m.how, matched_key |-> m.key,
     examined |-> i]

\* the loop of parse_current_page from row i on
RECURSIVE ParseFrom(_, _, _)
ParseFrom(trs, keys, i) ==
    IF i > Len(trs) THEN [NoMatch EXCEPT !.examined = Len(trs)]
    ELSE IF trs[i].tds < 3 THEN ParseFrom(trs, keys, i + 1)
    ELSE LET m == MatchedKey(NormMr(trs[i].col2), keys)
         IN IF m.key # None THEN RowMatch(i, m)
            ELSE ParseFrom(trs, keys, i + 1)

\* parse_current_page on the rows of the grid below the header row
ParseCurrentPage(trs, keys) == ParseFrom(trs, keys, 1)

\* what a call of parse_current_page leaves: the boolean it returns and the
\* nonlocal matched_row_info
ReturnedMatch(m) ==
    [kind |-> "return",
     val |-> IF m.found THEN <<"True">> ELSE <<"False">>,
     matched_row_info |-> m]

\* parse_current_page() with the grid found
CallParseCurrentPage ==
    /\ calls = 0
    /\ \E rws \in SeqsUpTo(GridRows, MaxMatchRows),
          recorded \in SeqsUpTo(RecordedTexts, MaxKeys) :
         /\ fn_call' = [fn |-> "parse_current_page", arg |-> rws,
                        keys |-> RecordedNorm(recorded)]
         /\ fn_ret' = ReturnedMatch(ParseCurrentPage(rws,
                                                     RecordedNorm(recorded)))
    /\ calls' = 1
    /\ UNCHANGED <<translate_cache, translators, appVars, sessVars,
                   poolVars>>

InitText ==
    /\ InitSess
    /\ numPages = 1
    /\ rowsPerPage = 0
    /\ stray = 0
    /\ InitPoolIdle
    /\ InitFnIdle

NextText ==
    \/ CallTranslateToEn
    \/ CallCleanText
    \/ CallNormMr
    \/ CallConsiderSurveyNumber
    \/ CallExtract
    \/ CallParseCurrentPage

SpecText == InitText /\ [][NextText]_vars

-----------------------------------------------------------------------------
(* Properties of one session (specification Spec).                         *)

\* C1: process_igr_from_doc and run always end by returning a dictionary, a
\* success or an error one: no failure of the cascade leaves run as an
\* exception (pending is what run itself produced).
C1_RunReturnsDict ==
    pending.kind \in {"none", "success", "error"}

\* the whitespace characters
Whitespace == {" ", "\t", "\n"}

\* a text with every whitespace character removed
StripWhitespace(s) == Without(s, Whitespace)

\* every survey id, whitespace removed, is a contiguous part of the text,
\* whitespace removed
AllPresentStripped(svs, text) ==
    \A k \in 1..Len(svs) :
        IsSubstring(StripWhitespace(svs[k]), StripWhitespace(text))

\* C2: run returns success only for a row it clicked and whose detail text,
\* read after the click, contains every target survey id as a contiguous
\* substring once whitespace is removed from both; a text that misses one of
\* them is rejected. The success carries that row and that text.
C2_SuccessOnlyIfAllSurveysPresent ==
    /\ verdict = "accepted" => AllPresentStripped(surveys, val)
    /\ (verdict # "none" /\ ~AllPresentStripped(surveys, val))
          => verdict = "rejected"
    /\ pending.kind = "success" =>
          /\ verdict = "accepted"
          /\ row_clicked
          /\ pending.row = rows[rowIdx]
          /\ pending.textbox = val

C2_Witness ==
    /\ pending.kind = "success"
    /\ surveys = <<S12A, S45>>
    /\ val = <<"1", "2", "A", ",", " ", "4", "5">>

\* the scan has ended with the result `msg`
ScanEndedWith(msg) ==
    pending.kind = "error" /\ pending.msg = msg

\* C3: a rejected row never ends the session, and the error that reports the
\* pages as exhausted is returned only once every page of the grid has been
\* parsed and the rows of every pass have been handled.
C3_ErrorOnlyAfterEveryPage ==
    ScanEndedWith(ErrExhausted) =>
        /\ {parsed[i] : i \in 1..Len(parsed)} = 1..numPages
        /\ passesDone = Len(parsed)

\* C4: when the last page has been scanned, its lookup finds no control for
\* a next page, and no row was verified, run returns the error dictionary
\* "Exhausted SubZones pages without a verified match": it neither raises
\* nor returns success.
C4_ExhaustedIsError ==
    [][ (pc = "pager" /\ pc' # "pager" /\ ~scanFault'
            /\ PagerLink(current_page + 1) = "none") =>
           /\ pending' = Error(ErrExhausted)
           /\ pc' = "exit"
      ]_vars

C4_Witness ==
    /\ ScanEndedWith(ErrExhausted)
    /\ ~scanFault
    /\ numPages = 2
    /\ parsed = <<1, 2>>
    /\ passesDone = 2
    /\ verdict = "rejected"

\* C5: on a grid of N pages where no row verifies, the loop handles pages
\* 1..N, one pass each, and ends: current_page never exceeds N, there are
\* never more passes than pages, and an undisturbed scan that ends
\* "Exhausted" ends on page N.
C5_ExactlyThePagesOfTheGrid ==
    /\ current_page <= numPages
    /\ Len(parsed) <= numPages
    /\ (ScanEndedWith(ErrExhausted) /\ ~scanFault) => current_page = numPages

\* C6: the cascade runs district, year, taluka, village, scan in this order:
\* a step is started only when the step before it has succeeded.
C6_CascadeOrder ==
    /\ "year" \in tried => "load" \in okSteps
    /\ "district" \in tried => "load" \in okSteps
    /\ "taluka" \in tried => "year" \in okSteps
    /\ "village" \in tried => "taluka" \in okSteps
    /\ (radio # "unset" \/ current_page > 0 \/ row_clicked)
          => "village" \in okSteps

C6_Witness ==
    /\ row_clicked
    /\ radio = "selected"
    /\ okSteps = {"load", "year", "taluka", "village"}

\* C7 as the specification states it: once the year selection or any later
\* step has been attempted, the page is not loaded and the district is not
\* selected again.
C7_NeverBackToEarlierStep ==
    [][ "year" \in tried =>
           /\ count'["load"] = count["load"]
           /\ count'["district"] = count["district"]
      ]_vars

\* C7, amended: the cascade moves forward except for one fallback: when the
\* first year selection fails, run reloads the page once, selects the
\* district by the generic scan once and selects the year once more. No
\* other failure makes run resume from an earlier step, and once the taluka
\* has been attempted no earlier step is performed again.
C7_ForwardExceptYearFallback ==
    [][ /\ "taluka" \in tried => count' = count
        /\ count'["load"] # count["load"] =>
              \/ count = [s \in {"load", "district", "year"} |-> 0]
              \/ /\ count["load"] = 1 /\ count["district"] = 0
                 /\ count["year"] = 1 /\ "year" \notin okSteps
        /\ count'["district"] # count["district"] =>
              /\ count["load"] = 2 /\ count["district"] = 0
              /\ count["year"] = 1 /\ "year" \notin okSteps
        /\ count'["year"] # count["year"] =>
              \/ count["year"] = 0 /\ count["load"] = 1
              \/ /\ count["year"] = 1 /\ count["load"] = 2
                 /\ count["district"] = 1 /\ "district" \in okSteps
      ]_vars

C7_Witness ==
    /\ count["load"] = 2
    /\ count["district"] = 1
    /\ count["year"] = 2
    /\ "taluka" \in okSteps

\* C8 as the specification states it: when neither radio call selects
\* SubZones, run does not go on to scan and click rows.
C8_RadioFailureAborts ==
    radio = "failed" => (~row_clicked /\ parsed = <<>>)

\* C8, amended: a dropdown none of whose attempts succeeds ends the session
\* before the scan, with an exception or the district error; a radio that
\* neither call selects does not: run goes on to locate the grid and scan,
\* and the only errors it can then return are those of the grid and the scan.
C8_RadioFailureProceeds ==
    /\ \A s \in {"year", "taluka", "village"} :
          s \in tried \ okSteps =>
             /\ radio = "unset"
             /\ ~row_clicked
             /\ parsed = <<>>
             /\ pc = "returned" => result.kind \in {"exception", "error"}
    /\ radio = "failed" =>
          \/ pending.kind \in {"none", "success"}
          \/ /\ pending.kind = "error"
             /\ pending.msg \in {ErrNoGrid, ErrExhausted, ErrScan}

C8_Witness ==
    /\ radio = "failed"
    /\ row_clicked
    /\ pending.kind = "success"

\* C9: whenever the session has ended, everything that was started has been
\* released: a close was attempted on the page, on the browser and on
\* Playwright if they exist.
C9_AllClosedOnEveryExit ==
    pc = "returned" =>
        /\ playwright # "none" => "playwright" \in closeTried
        /\ browser # "none" => "browser" \in closeTried
        /\ page # "none" => "page" \in closeTried

-----------------------------------------------------------------------------
(* Properties of the browser pool (specification SpecPool).                *)

\* C10: the browser of a thread serves its successive sessions, but every
\* session works on a page created for it (a page no session had before),
\* page.close() has been called on it when the session has returned, and no
\* two sessions in progress hold the same page.
C10_FreshPagePerSession ==
    [][ /\ \A t \in Threads :
              (sess'[t].page # 0 /\ sess'[t].page # sess[t].page) =>
                 /\ sess'[t].page \notin 1..nextPage
                 /\ sess'[t].page \in openPages'
                 /\ sess'[t].browser = tl_browser[t].id
        /\ \A t \in Threads :
              sess'[t].st = "returned" =>
                 /\ sess'[t].held # 0 => sess'[t].closeCalled
                 /\ sess'[t].page = 0 => sess'[t].held \notin openPages'
        /\ \A t \in Threads : \A u \in Threads \ {t} :
              (sess'[t].page # 0 /\ sess'[u].page # 0) =>
                 sess'[t].page # sess'[u].page
      ]_vars

C10_Witness ==
    /\ done[1] = 1
    /\ sess[1].st = "working"
    /\ sess[1].held = 2
    /\ sess[2].st = "working"
    /\ sess[2].held = 3
    /\ launches[1] = 1
    /\ sess[1].browser = tl_browser[1].id

-----------------------------------------------------------------------------
(* Properties of the text functions (specification SpecText).              *)

\* a reply of a service that gives no usable translation
Useless(reply) ==
    \/ reply.kind # "value"
    \/ reply.val = None
    \/ Strip(reply.val) = <<>>

\* C11: _translate_to_en never raises: whatever deep_translator, googletrans
\* and unidecode do (unavailable, raising, returning nothing usable), a call
\* on a text returns a text, a non-blank text gives a non-empty one, and when
\* the text is not cached and no service gives anything usable the value is
\* the original text, stripped.
C11_TranslateAlwaysReturnsText ==
    [][ (calls' # calls /\ fn_call'.fn = "_translate_to_en") =>
          LET name == fn_call'.arg
              t == Strip(name)
          IN /\ fn_ret'.kind = "return"
             /\ name # None => fn_ret'.val # None
             /\ (name # None /\ t # <<>>) =>
                   /\ fn_ret'.val # <<>>
                   /\ ( /\ ~InCache(translate_cache, t)
                        /\ Useless(fn_call'.deep)
                        /\ Useless(fn_call'.gt)
                        /\ Useless(fn_call'.uni) ) => fn_ret'.val = t
      ]_vars

C11_Witness ==
    /\ fn_call.fn = "_translate_to_en"
    /\ fn_call.arg = <<" ", DevLetterKa>>
    /\ fn_call.deep = Raises
    /\ fn_call.gt = Value(<<" ">>)
    /\ fn_call.uni = Value(<<>>)
    /\ fn_ret = Returned(<<DevLetterKa>>)
    /\ calls = 1

\* the first character of s that is neither '/' nor whitespace nor the
\* zero-width non-joiner, "" when s has none
FirstSignificant(s) ==
    LET idx == {i \in 1..Len(s) :
                   s[i] # "/" /\ ~IsSpace(s[i]) /\ s[i] # ZWNJ}
    IN IF idx = {} THEN ""
       ELSE s[CHOOSE i \in idx : \A j \in idx : i <= j]

\* C12: _consider_survey_number returns (it never raises), and it returns
\* None exactly when the raw text, cleaned and cut at '/', has no non-empty
\* segment or its first segment does not begin with a digit.
C12_NoneExactlyWithoutLeadingDigit ==
    fn_call.fn = "_consider_survey_number" =>
       /\ fn_ret.kind = "return"
       /\ fn_ret.val = None <=>
             \/ fn_call.arg = None
             \/ ~IsDigit(FirstSignificant(fn_call.arg))

C12_Witness ==
    /\ fn_call.fn = "_consider_survey_number"
    /\ fn_call.arg = <<" ", "/", "A", "/", "1">>
    /\ fn_ret = Returned(None)

\* the length of the longest prefix of s whose characters all satisfy P
PrefixLen(s, P(_)) ==
    CHOOSE k \in 0..Len(s) :
       /\ \A i \in 1..k : P(s[i])
       /\ k = Len(s) \/ ~P(s[k + 1])

\* the non-empty '/'-segments of the cleaned raw text
Segments(raw) == Parts(CleanText(raw))

\* base: the leading digit run of the first segment
BaseOf(raw) ==
    SubSeq(Segments(raw)[1], 1, PrefixLen(Segments(raw)[1], IsDigit))

RECURSIVE JoinSlash(_)
JoinSlash(segs) ==
    IF segs = <<>> THEN <<>>
    ELSE IF Len(segs) = 1 THEN segs[1]
    ELSE segs[1] \o <<"/">> \o JoinSlash(Tail(segs))

\* the raw text made of the first two segments of raw alone
FirstTwoSegments(raw) ==
    LET segs == Segments(raw)
    IN JoinSlash(SubSeq(segs, 1, IF Len(segs) < 2 THEN Len(segs) ELSE 2))

\* C15: only the first two non-empty segments influence the result of
\* _consider_survey_number: the result for a raw text is the result for its
\* first two segments alone, so two raw texts that agree on these give the
\* same result whatever their later segments are.
C15_OnlyFirstTwoSegmentsCount ==
    (fn_call.fn = "_consider_survey_number" /\ fn_call.arg # None) =>
       fn_ret.val = ConsiderSurveyNumber(FirstTwoSegments(fn_call.arg))

C15_Witness ==
    /\ fn_call.fn = "_consider_survey_number"
    /\ fn_call.arg = <<"1", "/", DevDigit4, "/", DevLetterA>>
    /\ fn_ret = Returned(<<"1">>)

\* C16: both normalizations are idempotent: cleaning a cleaned text gives it
\* back, _clean_text(_clean_text(s)) = _clean_text(s), and normalizing a
\* normalized key gives it back, _norm_mr(_norm_mr(s)) = _norm_mr(s).
C16_NormalizationsIdempotent ==
    /\ fn_call.fn = "_clean_text" => CleanText(fn_ret.val) = fn_ret.val
    /\ fn_call.fn = "_norm_mr" => NormMr(fn_ret.val) = fn_ret.val

C16_Witness ==
    /\ fn_call.fn = "_clean_text"
    /\ fn_call.arg = <<ZWNJ, NBSP, "a">>
    /\ fn_ret = Returned(<<"a">>)

\* the candidate rows (at least three cells) of trs whose normalized
\* column-2 key equals a non-empty target key
ExactRows(trs, keys) ==
    {i \in 1..Len(trs) :
        /\ trs[i].tds >= 3
        /\ \E j \in 1..Len(keys) :
              keys[j] # <<>> /\ NormMr(trs[i].col2) = keys[j]}

\* the candidate rows whose key equals no target key but contains a
\* non-empty target key or is contained in one
SubstringOnlyRows(trs, keys) ==
    {i \in 1..Len(trs) :
        /\ trs[i].tds >= 3
        /\ i \notin ExactRows(trs, keys)
        /\ \E j \in 1..Len(keys) :
              /\ keys[j] # <<>>
              /\ \/ IsSubstring(keys[j], NormMr(trs[i].col2))
                 \/ IsSubstring(NormMr(trs[i].col2), keys[j])}

\* C17: when one candidate row matches a target key by equality and another
\* matches only by containment, parse_current_page returns the row that
\* matches by equality, wherever the two rows stand in scan order.
C17_ExactRowWinsAnyOrder ==
    ( /\ fn_call.fn = "parse_current_page"
      /\ ExactRows(fn_call.arg, fn_call.keys) # {}
      /\ SubstringOnlyRows(fn_call.arg, fn_call.keys) # {} ) =>
         /\ fn_ret.val = <<"True">>
         /\ fn_ret.matched_row_info.row_index
               \in ExactRows(fn_call.arg, fn_call.keys)

\* the candidate rows that match a target key, by equality or by containment
MatchingRows(trs, keys) ==
    ExactRows(trs, keys) \cup SubstringOnlyRows(trs, keys)

\* C18: parse_current_page scans the rows in table order and returns the
\* first candidate row whose normalized key matches a target key, by
\* equality or, when no target key equals the row's key, by containment in
\* either direction; it examines no row after that one; and it reports no
\* match exactly when no candidate row of the page matches a target key.
C18_FirstMatchingRowWins ==
    fn_call.fn = "parse_current_page" =>
       LET trs == fn_call.arg
           keys == fn_call.keys
           info == fn_ret.matched_row_info
           M == MatchingRows(trs, keys)
       IN /\ fn_ret.kind = "return"
          /\ fn_ret.val = <<"False">> <=> M = {}
          /\ M = {} => ~info.found /\ info.examined = Len(trs)
          /\ M # {} =>
               /\ fn_ret.val = <<"True">>
               /\ info.row_index \in M
               /\ \A j \in M : info.row_index <= j
               /\ info.examined = info.row_index
               /\ info.how = "equality" <=>
                     info.row_index \in ExactRows(trs, keys)
               /\ info.how = "equality" =>
                     info.matched_key = NormMr(trs[info.row_index].col2)
               /\ info.how = "contains" =>
                     /\ info.row_index \in SubstringOnlyRows(trs, keys)
                     /\ \E j \in 1..Len(keys) : keys[j] = info.matched_key
                     /\ \/ IsSubstring(info.matched_key,
                                       NormMr(trs[info.row_index].col2))
                        \/ IsSubstring(NormMr(trs[info.row_index].col2),
                                       info.matched_key)

C18_Witness ==
    /\ fn_call.fn = "parse_current_page"
    /\ fn_call.arg = <<[tds |-> 3, col2 |-> <<"a">>],
                       [tds |-> 3, col2 |-> <<"a", " ", "b">>]>>
    /\ fn_call.keys = <<<<"a", "b">>>>
    /\ fn_ret.val = <<"True">>
    /\ fn_ret.matched_row_info.row_index = 1
    /\ fn_ret.matched_row_info.how = "contains"

\* the rows of the survey column whose text the parser accepts
ParsedCells(cells) ==
    {i \in 1..Len(cells) : ConsiderSurveyNumber(cells[i]) # None}

\* C19: a cell of the survey column that cannot be parsed (the parser
\* returns None) is left out of the survey list and does not make
\* extract_admin_and_surveys_from_docx fail: the function returns, and its
\* list holds the parsed identifiers of all the other rows, in table order.
C19_MalformedCellsSkipped ==
    (fn_call.fn = "extract_admin_and_surveys_from_docx" /\ fn_call.hasTable) =>
       LET cells == fn_call.arg
           P == ParsedCells(cells)
       IN /\ fn_ret.kind = "return"
          /\ Len(fn_ret.val) = Cardinality(P)
          /\ \A i \in P :
                fn_ret.val[Cardinality({j \in P : j <= i})] =
                   ConsiderSurveyNumber(cells[i])

C19_Witness ==
    /\ fn_call.fn = "extract_admin_and_surveys_from_docx"
    /\ fn_call.hasTable
    /\ fn_call.arg = <<<<"1", "/", "A">>, <<"A">>, <<"2", " ">>>>
    /\ fn_ret = Returned(<<<<"1", "A">>, <<"2">>>>)

-----------------------------------------------------------------------------
(* Properties of the progress channel (specification SpecEmit).            *)

\* C20: a failure of the progress channel never affects the scrape: when
\* progress_cb is absent, not callable or raises, every call of _emit_status
\* returns normally; no exception of the callback leaves run or becomes its
\* result; the year fallback is entered
\* only after a failed year selection and an accepted verification always
\* gives the success result, as without the callback.
C20_ProgressFailureHarmless ==
    progress_cb \in {"absent", "not_callable", "raises"} =>
       /\ emit_ret \in {"none", "returned"}
       /\ pending.msg # ErrCallback
       /\ result.msg # ErrCallback
       /\ pc = "fb_goto" => "year" \notin okSteps
       /\ verdict = "accepted" => pending.kind = "success"

C20_Witness ==
    /\ progress_cb = "raises"
    /\ emit_ret = "returned"
    /\ verdict = "accepted"
    /\ result.kind = "success"
    /\ pc = "returned"

-----------------------------------------------------------------------------
(* Further properties of one session (specification Spec).                 *)

\* C21: after a click on a next-page control, when the grid content has not
\* changed once the polls are over, the scan stops: run does not go back to
\* parsing, and no later pass parses (and clicks the rows of) content that an
\* earlier pass has parsed.
C21_UnchangedGridEndsScan ==
    /\ (pc \in {"scan_parse", "scan_row", "scan_verify"} /\ current_page > 1)
          => grid_changed
    /\ \A i \in 1..Len(parsed) : \A j \in 1..Len(parsed) :
          i # j => parsed[i] # parsed[j]

\* C23: the village is selected only after the option list of the village
\* dropdown has been seen to hold more than one option after the taluka
\* selection; when the wait ends without that, run does not go on to the
\* village selection.
C23_VillageOnlyAfterRepopulation ==
    /\ pc \in {"run_village", "village_label", "village_label_orig"}
          => village_ready
    /\ "village" \in tried => village_ready

\* the steps of run from the selection of the SubZones radio to the end of
\* the scan
ScanSteps ==
    {"scan_radio", "scan_grid", "scan_html", "scan_parse", "scan_row",
     "scan_verify", "pager", "pager_click"}

\* what the scan returns
IsScanResult(r) ==
    \/ r.kind = "success"
    \/ r \in {Error(ErrNoGrid), Error(ErrExhausted), Error(ErrScan)}

\* C28: a run that has reached the SubZones scan stays in it until it returns
\* from it with a success, 'SubZones grid not found', 'Exhausted all SubZones
\* pages' or 'Failed during SubZones scan'; nothing of the later Survey-No.
\* search phase is executed, and the page counter stays within the page
\* numbers the site has a control for, so the scan ends.
C28_ScanReturnsFromWithin ==
    [][(pc \in ScanSteps) =>
          (/\ \/ pc' \in ScanSteps
              \/ pc' = "exit" /\ IsScanResult(pending')
           /\ current_page' <= numPages + stray)]_vars

C28_Witness ==
    /\ pc = "exit"
    /\ pending = Error(ErrExhausted)
    /\ current_page = 2
    /\ passesDone = 2
    /\ Len(parsed) = 2

\* C29: after the click on a row's link the row is judged on whatever the
\* textarea holds when the polling ends: when the text never became non-empty
\* and different from the one read before the click, the verification is
\* still made on that unchanged text; the row is not rejected for it and no
\* timeout is reported.
C29_JudgedOnTextAtEndOfPolling ==
    verdict # "none" =>
       /\ poll_read \in {"raised", "changed", "unchanged"}
       /\ poll_read = "raised" => val = <<>>
       /\ poll_read # "raised" => val = textarea
       /\ verdict = "accepted" <=> TextboxHasAllSurveys(val, surveys)

\* the second row of a page is accepted on the text the textarea already
\* showed before its link was clicked
C29_Witness ==
    /\ verdict = "accepted"
    /\ poll_read = "unchanged"
    /\ rows[rowIdx] = <<1, 2>>
    /\ val = <<"1", "2", "A", ",", " ", "4", "5">>
    /\ surveys = <<S12A, S45>>
    /\ pending = Success(<<1, 2>>, val)

-----------------------------------------------------------------------------
(* Properties of the scan on a grid with column-2 texts (SpecGrid).        *)

\* the column-2 key of grid row r equals a target key, contains one or is
\* contained in one
RowMatchesTarget(r) ==
    MatchedKey(NormMr(col2[r]), RecordedNorm(surveys)).key # None

\* C22 as stated: the detail view is opened and verified only for rows whose
\* normalized column-2 key matches a target identifier; a row that matches
\* none is never clicked.
C22_OnlyMatchedRowsClicked ==
    pc = "scan_verify" => RowMatchesTarget(rows[rowIdx])

\* C22 amended: the rows of a pass are all the rows of the displayed page
\* that carry a SurveyNo link, in table order, whatever their column-2 text;
\* the row being verified is one of them and has been clicked.
C22_EveryLinkedRowOpened ==
    /\ pc \in {"scan_row", "scan_verify"} =>
          /\ rows = [j \in 1..rowsPerPage |-> <<shown, j>>]
          /\ rowIdx \in 1..Len(rows)
    /\ pc = "scan_verify" =>
          /\ row_clicked
          /\ rows[rowIdx] \in visited

C22_Witness ==
    /\ pc = "scan_verify"
    /\ surveys = <<S12A, S45>>
    /\ col2[rows[rowIdx]] = <<"c">>
    /\ ~RowMatchesTarget(rows[rowIdx])
    /\ row_clicked

-----------------------------------------------------------------------------
(* Concurrent calls of _translate_to_en (specification SpecCache).  The    *)
(* worker threads of the process share _translate_cache; nothing in the    *)
(* function synchronizes the membership test with the later assignment.    *)

\* a thread that is not inside _translate_to_en; n counts its calls
IdleCall == [st |-> "idle", t |-> <<>>, out |-> <<>>, n |-> 0]

\* the texts the sessions of one process translate
SharedNames == Names \ {None, <<>>}

\* entry of the function up to the membership test: a hit returns the
\* stored value, a miss goes on to the translation services
TranslateCheck(th) ==
    /\ translators[th].st = "idle"
    /\ translators[th].n < MaxCalls
    /\ \E name \in SharedNames :
         LET t == Strip(name)
             n == translators[th].n + 1
         IN translators' = [translators EXCEPT ![th] =
              IF t = <<>>
                THEN [st |-> "returned", t |-> t, out |-> t, n |-> n]
              ELSE IF InCache(translate_cache, t)
                THEN [st |-> "returned", t |-> t,
                      out |-> CacheGet(translate_cache, t), n |-> n]
              ELSE [st |-> "missed", t |-> t, out |-> <<>>, n |-> n]]
    /\ UNCHANGED <<translate_cache, fn_call, fn_ret, calls, appVars,
                   sessVars, poolVars>>

\* after a miss: the services answer, the value is stored and returned
TranslateStore(th) ==
    /\ translators[th].st = "missed"
    /\ \E deep \in ServiceReplies, gt \in ServiceReplies,
          uni \in UnidecodeReplies :
         LET t == translators[th].t
             r == TranslateToEn(t, {}, deep, gt, uni)
         IN /\ translate_cache' =
                 IF r.cache = {} THEN translate_cache
                 ELSE CachePut(translate_cache, t, r.out)
            /\ translators' = [translators EXCEPT ![th] =
                 [@ EXCEPT !.st = "returned", !.out = r.out]]
    /\ UNCHANGED <<fn_call, fn_ret, calls, appVars, sessVars, poolVars>>

\* the caller goes on and may call again
TranslateReturn(th) ==
    /\ translators[th].st = "returned"
    /\ translators' = [translators EXCEPT ![th] =
         [@ EXCEPT !.st = "idle", !.t = <<>>, !.out = <<>>]]
    /\ UNCHANGED <<translate_cache, fn_call, fn_ret, calls, appVars,
                   sessVars, poolVars>>

InitCache ==
    /\ InitSess
    /\ numPages = 1
    /\ rowsPerPage = 0
    /\ stray = 0
    /\ InitPoolIdle
    /\ InitAppIdle
    /\ translate_cache = {}
    /\ fn_call = [fn |-> "", arg |-> <<>>]
    /\ fn_ret = [kind |-> "none", val |-> <<>>]
    /\ calls = 0
    /\ translators = [th \in Threads |-> IdleCall]

NextCache ==
    \E th \in Threads :
       \/ TranslateCheck(th)
       \/ TranslateStore(th)
       \/ TranslateReturn(th)

SpecCache == InitCache /\ [][NextCache]_vars

\* C24: a write to the translation cache that replaces an existing entry
\* writes the value already stored, so that an entry once cached keeps its
\* value: every pair in the cache is still in the cache after every step.
C24_CachedValueNeverChanges ==
    [][\A p \in translate_cache : p \in translate_cache']_vars

-----------------------------------------------------------------------------
(* Letter case in _consider_survey_number (specification SpecText).        *)

\* C25 as stated: letter case is folded before parsing, so a raw text and
\* its lower-case form parse to the same identifier.
C25_CaseFoldedBeforeParsing ==
    fn_call.fn = "_consider_survey_number" =>
       fn_ret.val = ConsiderSurveyNumber(Lower(fn_call.arg))

\* C25 as the code has it: the parser cleans whitespace only and keeps the
\* letters as written; every character of the identifier returned is a
\* character of the raw text, in the case it has there.
C25_CaseKeptAsWritten ==
    (fn_call.fn = "_consider_survey_number" /\ fn_ret.val # None) =>
       \A i \in 1..Len(fn_ret.val) :
          \E j \in 1..Len(fn_call.arg) : fn_call.arg[j] = fn_ret.val[i]

C25_Witness ==
    /\ fn_call.fn = "_consider_survey_number"
    /\ fn_call.arg = <<"1", "/", "A">>
    /\ fn_ret = Returned(<<"1", "A">>)
    /\ ConsiderSurveyNumber(Lower(fn_call.arg)) = <<"1", "a">>

-----------------------------------------------------------------------------
(* The follow-up tables of the Index-II document: future_filter_and_       *)
(* aggregate of index2-word_converter.py and _build_followup_tables of     *)
(* NEWmethod1.py (specification SpecTables).  A float is a fraction        *)
(* [num, den] with den > 0.                                                *)

MaxTableRows == 3

\* the text of the column of a kept row
BinshetiJamin == "binsheti jamin"

\* the fixed date range of _build_followup_tables and a date outside it
DateInside == "14/06/2018"
DateOutside == "14/06/2021"

Frac(n, d) == [num |-> n, den |-> d]

FracLess(a, b) == a.num * b.den < b.num * a.den

FracEq(a, b) == a.num * b.den = b.num * a.den

FracAdd(a, b) == Frac(a.num * b.den + b.num * a.den, a.den * b.den)

AsciiDigits == <<"0", "1", "2", "3", "4", "5", "6", "7", "8", "9">>

IsFloatChar(c) == c = "." \/ \E i \in 1..10 : AsciiDigits[i] = c

DigitValue(c) == (CHOOSE i \in 1..10 : AsciiDigits[i] = c) - 1

\* the number written by the digits ds
RECURSIVE IntOf(_)
IntOf(ds) ==
    IF ds = <<>> THEN 0
    ELSE 10 * IntOf(SubSeq(ds, 1, Len(ds) - 1)) + DigitValue(ds[Len(ds)])

RECURSIVE Pow10(_)
Pow10(k) == IF k = 0 THEN 1 ELSE 10 * Pow10(k - 1)

\* float(s_clean) for a text of digits and dots: ValueError unless it has
\* at most one dot and at least one digit
FloatOf(clean) ==
    LET dots == SelectSeq(clean, LAMBDA c : c = ".")
        digits == SelectSeq(clean, LAMBDA c : c # ".")
        dot == CHOOSE i \in 1..Len(clean) : clean[i] = "."
    IN IF Len(dots) > 1 \/ digits = <<>> THEN [kind |-> "ValueError"]
       ELSE IF dots = <<>>
         THEN [kind |-> "value", val |-> Frac(IntOf(clean), 1)]
       ELSE [kind |-> "value",
             val |-> Frac(IntOf(digits), Pow10(Len(clean) - dot))]

\* to_float_safe and _to_float
ToFloat(s) ==
    LET s_clean == SelectSeq(s, IsFloatChar)
    IN IF s_clean = <<>> THEN Frac(0, 1)
       ELSE IF FloatOf(s_clean).kind = "ValueError" THEN Frac(0, 1)
       ELSE FloatOf(s_clean).val

\* _date_in_range for the two dates of the model
DateInRange(s) == s = DateInside

\* the rows a base table is made of: pos is the place of the row in the
\* base table, the other fields are the texts of its cells
RowTexts ==
    { [serial |-> <<"1">>, prakar |-> BinshetiJamin, date |-> DateInside,
       rate_sqm |-> <<"2">>, amount |-> <<"4">>, area_sqm |-> <<"2">>],
      [serial |-> <<"2">>, prakar |-> BinshetiJamin, date |-> DateInside,
       rate_sqm |-> <<"1", ".", "5">>, amount |-> <<"R", "s", "6">>,
       area_sqm |-> <<"2">>],
      [serial |-> <<"3">>, prakar |-> BinshetiJamin, date |-> DateInside,
       rate_sqm |-> <<"1", ".", "2", ".", "3">>, amount |-> <<"6">>,
       area_sqm |-> <<"0">>],
      [serial |-> <<"4">>, prakar |-> "other", date |-> DateInside,
       rate_sqm |-> <<"9">>, amount |-> <<"9">>, area_sqm |-> <<"1">>],
      [serial |-> <<"8">>, prakar |-> BinshetiJamin, date |-> DateInside,
       rate_sqm |-> <<"-", "3">>, amount |-> <<"8">>, area_sqm |-> <<"1">>],
      [serial |-> <<"5">>, prakar |-> BinshetiJamin, date |-> DateOutside,
       rate_sqm |-> <<>>, amount |-> <<"5">>, area_sqm |-> <<"2", ".">>] }

\* a row with a sort key: what the sort and the slice work on
Keyed(r, i, key) == [pos |-> i, row |-> r, rate |-> key]

\* list.sort(key=..., reverse=True): descending by key, rows of equal key
\* in the order they had
RECURSIVE InsertDesc(_, _)
InsertDesc(x, sorted) ==
    IF sorted = <<>> THEN <<x>>
    ELSE IF FracLess(Head(sorted).rate, x.rate)
      THEN <<x>> \o sorted
    ELSE <<Head(sorted)>> \o InsertDesc(x, Tail(sorted))

RECURSIVE SortDesc(_)
SortDesc(trs) ==
    IF trs = <<>> THEN <<>>
    ELSE InsertDesc(trs[Len(trs)], SortDesc(SubSeq(trs, 1, Len(trs) - 1)))

\* half of n rounded down
KeepNRoundedDown(n) == IF n > 0 THEN (IF n \div 2 > 1 THEN n \div 2 ELSE 1)
                       ELSE 0

\* max(1, math.ceil(n * 0.5)) if n > 0 else 0
KeepN(n) ==
    LET ceil == (n + 1) \div 2
    IN IF n > 0 THEN (IF ceil > 1 THEN ceil ELSE 1) ELSE 0

RECURSIVE SumRates(_)
SumRates(trs) ==
    IF trs = <<>> THEN Frac(0, 1)
    ELSE FracAdd(Head(trs).rate, SumRates(Tail(trs)))

\* sum(...) / len(top_half) if top_half else 0.0
Average(top) ==
    IF top = <<>> THEN Frac(0, 1)
    ELSE Frac(SumRates(top).num, SumRates(top).den * Len(top))

\* the top table and the average of the rows given, sorted by their key
TopHalf(sorted) == SubSeq(sorted, 1, KeepN(Len(sorted)))

\* future_filter_and_aggregate on the data rows of the base table
FutureFilterAndAggregate ==
    /\ followup = NoTables
    /\ LET data == [i \in 1..Len(base_rows) |->
                      Keyed(base_rows[i], i, ToFloat(base_rows[i].rate_sqm))]
           filtered == SortDesc(SelectSeq(data,
                          LAMBDA k : k.row.prakar = BinshetiJamin))
       IN followup' = [fn |-> "future_filter_and_aggregate",
                       filtered |-> filtered,
                       top |-> TopHalf(filtered),
                       avg |-> Average(TopHalf(filtered))]
    /\ UNCHANGED <<base_rows, flaskVars, sessVars, poolVars, translate_cache,
                   fn_call, fn_ret, calls, translators>>

\* compute_rate
ComputeRate(r) ==
    LET amt == ToFloat(r.amount)
        area == ToFloat(r.area_sqm)
    IN IF area.num > 0 THEN Frac(amt.num * area.den, amt.den * area.num)
       ELSE Frac(0, 1)

\* _build_followup_tables on all_rows
BuildFollowupTables ==
    /\ followup = NoTables
    /\ LET data == [i \in 1..Len(base_rows) |->
                      Keyed(base_rows[i], i, ToFloat(base_rows[i].rate_sqm))]
           filtered == SortDesc(SelectSeq(data,
                          LAMBDA k : /\ k.row.prakar = BinshetiJamin
                                     /\ DateInRange(k.row.date)
                                     /\ k.row.serial # <<"8">>))
           derived_rows == [i \in 1..Len(filtered) |->
                              Keyed(filtered[i].row, filtered[i].pos,
                                    ComputeRate(filtered[i].row))]
           top_half_rows == TopHalf(SortDesc(derived_rows))
       IN followup' = [fn |-> "_build_followup_tables",
                       filtered |-> derived_rows,
                       top |-> top_half_rows,
                       avg |-> Average(top_half_rows)]
    /\ UNCHANGED <<base_rows, flaskVars, sessVars, poolVars, translate_cache,
                   fn_call, fn_ret, calls, translators>>

InitTables ==
    /\ InitSess
    /\ numPages = 1
    /\ rowsPerPage = 0
    /\ stray = 0
    /\ InitPoolIdle
    /\ translate_cache = {}
    /\ fn_call = [fn |-> "", arg |-> <<>>]
    /\ fn_ret = [kind |-> "none", val |-> <<>>]
    /\ calls = 0
    /\ translators = <<>>
    /\ base_rows \in UNION {[1..k -> RowTexts] : k \in 0..MaxTableRows}
    /\ followup = NoTables
    /\ InitFlaskIdle

NextTables ==
    \/ FutureFilterAndAggregate
    \/ BuildFollowupTables

SpecTables == InitTables /\ [][NextTables]_vars

\* the places in the base table of the rows of a table
Places(trs) == {trs[i].pos : i \in 1..Len(trs)}

\* C26: out of n filtered rows the top table keeps max(1, ceil(n/2)) rows
\* when n > 0 and none when n = 0; the kept rows are different rows of the
\* filtered table, in descending order of rate, no dropped row has a higher
\* rate than a kept one, and the average is the mean of the kept rates, 0
\* when no row is kept.
C26_TopTableIsUpperHalf ==
    followup.fn # "" =>
       LET n == Len(followup.filtered)
           top == followup.top
           k == Len(top)
           half == CHOOSE h \in 0..n : 2 * h >= n /\ 2 * (h - 1) < n
       IN /\ n = 0 => k = 0
          /\ n > 0 => k = (IF half > 1 THEN half ELSE 1)
          /\ \A i \in 1..k : \E j \in 1..n : followup.filtered[j] = top[i]
          /\ Cardinality(Places(top)) = k
          /\ \A i \in 1..k : \A j \in 1..k :
                i < j => ~FracLess(top[i].rate, top[j].rate)
          /\ \A j \in 1..n : \A i \in 1..k :
                followup.filtered[j].pos \notin Places(top)
                   => ~FracLess(top[i].rate, followup.filtered[j].rate)
          /\ k = 0 => FracEq(followup.avg, Frac(0, 1))
          /\ k > 0 => FracEq(Frac(followup.avg.num * k, followup.avg.den),
                             SumRates(top))

\* three filtered rows of rates 2, 1.5 and 0: two are kept, mean 1.75
C26_Witness ==
    /\ followup.fn = "future_filter_and_aggregate"
    /\ Len(followup.filtered) = 3
    /\ Len(followup.top) = 2
    /\ followup.top[1].rate = Frac(2, 1)
    /\ followup.top[2].rate = Frac(15, 10)
    /\ FracEq(followup.avg, Frac(175, 100))

-----------------------------------------------------------------------------
(* The requests /upload and /process_method2 of main.py in the worker      *)
(* threads of the one gunicorn worker (specification SpecUpload).          *)

MaxRequests == 2

\* a thread that handles no request; n counts the requests it has handled
\* and last is the response it gave last
NoRequest == [st |-> "idle", n |-> 0, last |-> "none"]

\* the responses of upload_file that follow the OCR of the image
UploadResponses ==
    {"200 success", "400 missing values", "400 calculation failed",
     "500 OCR processing failed"}

\* upload_file up to the start of the OCR: a request without a usable file
\* is answered at once, for any other the flag is set
UploadAccept(th) ==
    /\ requests[th].st = "idle"
    /\ requests[th].n < MaxRequests
    /\ \E usable \in BOOLEAN :
         IF usable
           THEN /\ image_processing' = TRUE
                /\ requests' = [requests EXCEPT ![th] =
                     [st |-> "ocr", n |-> @.n + 1, last |-> @.last]]
           ELSE /\ requests' = [requests EXCEPT ![th] =
                     [st |-> "idle", n |-> @.n + 1, last |-> "400 no file"]]
                /\ UNCHANGED image_processing
    /\ UNCHANGED <<docVars, sessVars, poolVars, translate_cache, fn_call,
                   fn_ret, calls, translators>>

\* the rest of upload_file: every way out clears the flag and responds
UploadRespond(th) ==
    /\ requests[th].st = "ocr"
    /\ image_processing' = FALSE
    /\ \E resp \in UploadResponses :
         requests' = [requests EXCEPT ![th] =
            [st |-> "idle", n |-> @.n, last |-> resp]]
    /\ UNCHANGED <<docVars, sessVars, poolVars, translate_cache, fn_call,
                   fn_ret, calls, translators>>

\* process_method2 up to the start of the scraping
ProcessMethod2(th) ==
    /\ requests[th].st = "idle"
    /\ requests[th].n < MaxRequests
    /\ \E logged_in \in BOOLEAN :
         requests' = [requests EXCEPT ![th] =
            IF ~logged_in
              THEN [st |-> "idle", n |-> @.n + 1, last |-> "401 not logged in"]
            ELSE IF image_processing
              THEN [st |-> "idle", n |-> @.n + 1,
                    last |-> "400 image is still being processed"]
            ELSE [st |-> "scraping", n |-> @.n + 1, last |-> @.last]]
    /\ UNCHANGED <<image_processing, docVars, sessVars, poolVars,
                   translate_cache, fn_call, fn_ret, calls, translators>>

\* the scraping ends and process_method2 responds
Method2Respond(th) ==
    /\ requests[th].st = "scraping"
    /\ \E resp \in {"200 success", "200 error"} :
         requests' = [requests EXCEPT ![th] =
            [st |-> "idle", n |-> @.n, last |-> resp]]
    /\ UNCHANGED <<image_processing, docVars, sessVars, poolVars,
                   translate_cache, fn_call, fn_ret, calls, translators>>

InitUpload ==
    /\ InitSess
    /\ numPages = 1
    /\ rowsPerPage = 0
    /\ stray = 0
    /\ InitPoolIdle
    /\ InitDocIdle
    /\ translate_cache = {}
    /\ fn_call = [fn |-> "", arg |-> <<>>]
    /\ fn_ret = [kind |-> "none", val |-> <<>>]
    /\ calls = 0
    /\ translators = <<>>
    /\ image_processing = FALSE
    /\ requests = [th \in Threads |-> NoRequest]

NextUpload ==
    \E th \in Threads :
       \/ UploadAccept(th)
       \/ UploadRespond(th)
       \/ ProcessMethod2(th)
       \/ Method2Respond(th)

SpecUpload == InitUpload /\ [][NextUpload]_vars

\* C27: the flag is True whenever some upload is between accepting its file
\* and responding, also when uploads overlap, and /process_method2 is never
\* accepted while an image is being OCR-processed.
C27_FlagCoversEveryUpload ==
    [][/\ (\E th \in Threads : requests'[th].st = "ocr") => image_processing'
       /\ \A th \in Threads :
             (requests[th].st = "idle" /\ requests'[th].st = "scraping")
                => ~\E o \in Threads : requests[o].st = "ocr"]_vars

-----------------------------------------------------------------------------
(* The start of the browser in a worker thread (specification SpecPool).   *)

\* C30: a thread tries to start the browser at most once; what the first
\* call of get_browser_instance stored is what every later call of the
\* thread returns: the same browser to every session after a success, and
\* after a failure None without another launch, so that every later session
\* of the thread fails with 'Failed to initialize browser'.
C30_BrowserStartedOncePerThread ==
    [][\A t \in Threads :
          /\ launches'[t] <= 1
          /\ tl_browser[t] # NoInstance =>
                /\ tl_browser'[t] = tl_browser[t]
                /\ launches'[t] = launches[t]
          /\ sess'[t].st = "working" =>
                /\ tl_browser'[t].state = "ready"
                /\ sess'[t].browser = tl_browser'[t].id
          /\ (/\ tl_browser[t] = FailedInstance
              /\ sess[t].st = "got_instance"
              /\ sess'[t] # sess[t]) =>
                /\ sess'[t].st = "finally"
                /\ sess'[t].error = ErrInitBrowser
                /\ sess'[t].page = 0]_vars

\* the second session of a thread whose launch failed
C30_Witness ==
    /\ tl_browser[1] = FailedInstance
    /\ launches[1] = 1
    /\ done[1] = 1
    /\ sess[1].st = "finally"
    /\ sess[1].error = ErrInitBrowser

====
